---- MODULE Spec2Model ----
(***************************************************************************)
(* CERTopedia request handlers: the static-asset Lambda                    *)
(* (src/lambda/handler.js), the data API Lambda (src/unnamed/part_002) and *)
(* the health-check Lambda (src/lambda/healthcheck.js).                    *)
(*                                                                         *)
(* A JavaScript string is a sequence of UTF-16 code units (naturals), a    *)
(* Buffer is a sequence of bytes.  Each Lambda function runs in its own    *)
(* process with its own module state; fn names the function the modelled   *)
(* process runs.                                                           *)
(***************************************************************************)
EXTENDS Integers, Sequences, FiniteSets, TLC

VARIABLES
    fn,                 \* which Lambda the process runs: "static" | "api" | "health"
    now,                \* Date.now()
    ticks,              \* number of clock advances so far (bounds the run)
    fs,                 \* files under the project root: path -> [exists, bytes]
    cache,              \* handler.js: const cache = new Map()
    dataFile,           \* content of data/certs.json
    certData,           \* part_002: let certData = null
    certDataTimestamp,  \* part_002: let certDataTimestamp = 0
    event,              \* the last event handled
    lookups,            \* cache lookups made while handling the last event
    response,           \* the envelope returned for the last event
    input,              \* query engine called directly: the record list
    output,             \* query engine called directly: the last call and result
    invocations         \* interleaved cache lookups: each one's position and locals

vars == <<fn, now, ticks, fs, cache, dataFile, certData, certDataTimestamp,
          event, lookups, response, input, output, invocations>>

----------------------------------------------------------------------------
(* Bounds of the model *)

MaxTicks == 2
MaxCerts == 3
StartTime == 1000000

----------------------------------------------------------------------------
(* JavaScript strings *)

S_slash == <<47>>  \* "/"
S_dot == <<46>>  \* "."
S_dotdot == <<46, 46>>  \* ".."
S_dist == <<100, 105, 115, 116>>  \* "dist"
S_index_html == <<47, 105, 110, 100, 101, 120, 46, 104, 116, 109, 108>>  \* "/index.html"
S_dist_index == <<100, 105, 115, 116, 47, 105, 110, 100, 101, 120, 46, 104, 116, 109, 108>>  \* "dist/index.html"
S_api == <<47, 97, 112, 105>>  \* "/api"
S_all == <<97, 108, 108>>  \* "all"
S_true == <<116, 114, 117, 101>>  \* "true"
S_text_slash == <<116, 101, 120, 116, 47>>  \* "text/"
S_javascript == <<106, 97, 118, 97, 115, 99, 114, 105, 112, 116>>  \* "javascript"
S_json == <<106, 115, 111, 110>>  \* "json"
S_text_html == <<116, 101, 120, 116, 47, 104, 116, 109, 108>>  \* "text/html"
S_application_json == <<97, 112, 112, 108, 105, 99, 97, 116, 105, 111, 110, 47, 106, 115, 111, 110>>  \* "application/json"
S_octet_stream == <<97, 112, 112, 108, 105, 99, 97, 116, 105, 111, 110, 47, 111, 99, 116, 101, 116, 45, 115, 116, 114, 101, 97, 109>>  \* "application/octet-stream"

\* String.prototype.toLowerCase on one code unit (ASCII letters)
LowerChar(c) == IF c >= 65 /\ c <= 90 THEN c + 32 ELSE c

\* String.prototype.toLowerCase
toLowerCase(s) == [i \in 1..Len(s) |-> LowerChar(s[i])]

\* s.startsWith(p)
startsWith(s, p) == Len(p) <= Len(s) /\ SubSeq(s, 1, Len(p)) = p

\* first index (1-based) at which p occurs in s, 0 when it does not occur
indexOf(s, p) ==
    LET hits == {i \in 1..(Len(s) - Len(p) + 1) : SubSeq(s, i, i + Len(p) - 1) = p}
    IN  IF hits = {} THEN 0 ELSE CHOOSE i \in hits : \A j \in hits : i <= j

\* s.includes(p)
includes(s, p) == indexOf(s, p) # 0

\* s.replace(p, '') with a string pattern: the first occurrence only
replaceFirst(s, p) ==
    LET i == indexOf(s, p)
    IN  IF i = 0 THEN s ELSE SubSeq(s, 1, i - 1) \o SubSeq(s, i + Len(p), Len(s))

\* last index (1-based) of code unit c in s, 0 when absent
lastIndexOfChar(s, c) ==
    LET hits == {i \in 1..Len(s) : s[i] = c}
    IN  IF hits = {} THEN 0 ELSE CHOOSE i \in hits : \A j \in hits : i >= j

\* s1 < s2 by UTF-16 code units: the order of Array.prototype.sort()
RECURSIVE StrLess(_, _)
StrLess(a, b) ==
    IF b = <<>> THEN FALSE
    ELSE IF a = <<>> THEN TRUE
    ELSE IF a[1] # b[1] THEN a[1] < b[1]
    ELSE StrLess(Tail(a), Tail(b))

----------------------------------------------------------------------------
(* path (posix) *)

\* the segments of s between '/' separators
RECURSIVE Split(_)
Split(s) ==
    LET i == indexOf(s, S_slash)
    IN  IF i = 0 THEN <<s>>
        ELSE <<SubSeq(s, 1, i - 1)>> \o Split(SubSeq(s, i + 1, Len(s)))

\* segs joined by '/'
RECURSIVE JoinSegs(_)
JoinSegs(segs) ==
    IF segs = <<>> THEN <<>>
    ELSE IF Len(segs) = 1 THEN segs[1]
    ELSE segs[1] \o S_slash \o JoinSegs(Tail(segs))

\* path.normalize's normalizeString: resolves '.' and '..' segments
RECURSIVE NormalizeSegs(_, _, _)
NormalizeSegs(segs, res, allowAboveRoot) ==
    IF segs = <<>> THEN res
    ELSE LET s == Head(segs)
             up == res # <<>> /\ res[Len(res)] # S_dotdot
             res2 == IF s = <<>> \/ s = S_dot THEN res
                     ELSE IF s = S_dotdot
                          THEN IF up THEN SubSeq(res, 1, Len(res) - 1)
                               ELSE IF allowAboveRoot THEN Append(res, s)
                               ELSE res
                     ELSE Append(res, s)
         IN  NormalizeSegs(Tail(segs), res2, allowAboveRoot)

\* path.normalize(p)
normalize(p) ==
    IF p = <<>> THEN S_dot
    ELSE LET isAbsolute == p[1] = 47
             trailingSeparator == p[Len(p)] = 47
             body == JoinSegs(NormalizeSegs(Split(p), <<>>, ~isAbsolute))
         IN  IF body = <<>>
             THEN IF isAbsolute THEN S_slash
                  ELSE IF trailingSeparator THEN S_dot \o S_slash ELSE S_dot
             ELSE (IF isAbsolute THEN S_slash ELSE <<>>) \o body
                  \o (IF trailingSeparator THEN S_slash ELSE <<>>)

\* path.join(a, b): empty arguments are skipped
pathJoin(a, b) ==
    IF a = <<>> /\ b = <<>> THEN S_dot
    ELSE IF a = <<>> THEN normalize(b)
    ELSE IF b = <<>> THEN normalize(a)
    ELSE normalize(a \o S_slash \o b)

\* the last path component, trailing separators ignored
RECURSIVE basename(_)
basename(p) ==
    IF p = <<>> THEN <<>>
    ELSE IF p[Len(p)] = 47 THEN basename(SubSeq(p, 1, Len(p) - 1))
    ELSE LET i == lastIndexOfChar(p, 47) IN SubSeq(p, i + 1, Len(p))

\* path.extname(p): from the last '.' of the last component; '' when there
\* is none, or when the only '.' is the component's first character
extname(p) ==
    LET b == basename(p)
        d == lastIndexOfChar(b, 46)
    IN  IF d <= 1 \/ b = S_dotdot THEN <<>> ELSE SubSeq(b, d, Len(b))

----------------------------------------------------------------------------
(* Buffers *)

\* Buffer.prototype.toString(): UTF-8 decoding.  The modelled files hold
\* ASCII bytes and the bytes 137 and 255, which belong to no valid UTF-8
\* sequence and decode to U+FFFD each.
toString(bytes) == [i \in 1..Len(bytes) |-> IF bytes[i] < 128 THEN bytes[i] ELSE 65533]

\* the base64 alphabet: the code unit of a 6-bit value
Base64Char(v) ==
    IF v < 26 THEN 65 + v
    ELSE IF v < 52 THEN 97 + (v - 26)
    ELSE IF v < 62 THEN 48 + (v - 52)
    ELSE IF v = 62 THEN 43 ELSE 47

\* Buffer.prototype.toString('base64')
RECURSIVE toBase64(_)
toBase64(bytes) ==
    IF bytes = <<>> THEN <<>>
    ELSE LET n  == Len(bytes)
             b1 == bytes[1]
             b2 == IF n >= 2 THEN bytes[2] ELSE 0
             b3 == IF n >= 3 THEN bytes[3] ELSE 0
             c1 == Base64Char(b1 \div 4)
             c2 == Base64Char(((b1 % 4) * 16) + (b2 \div 16))
             c3 == IF n >= 2 THEN Base64Char(((b2 % 16) * 4) + (b3 \div 64)) ELSE 61
             c4 == IF n >= 3 THEN Base64Char(b3 % 64) ELSE 61
         IN  <<c1, c2, c3, c4>> \o (IF n > 3 THEN toBase64(SubSeq(bytes, 4, n)) ELSE <<>>)

----------------------------------------------------------------------------
(* Objects *)

\* { ...a, ...b }: the keys of both, b's value where both have the key
spread(a, b) ==
    [k \in DOMAIN a \cup DOMAIN b |-> IF k \in DOMAIN b THEN b[k] ELSE a[k]]

\* an object with the single property k
prop(k, v) == [x \in {k} |-> v]

\* a Buffer | null (or string | null) value
Null == [ok |-> FALSE, bytes |-> <<>>]
Some(b) == [ok |-> TRUE, bytes |-> b]

----------------------------------------------------------------------------
(* src/lambda/handler.js: the static-asset Lambda *)

CACHE_TTL == 300000

\* the mimeTypes table
mimeTypes ==
    {  [ext |-> <<46, 104, 116, 109, 108>>, type |-> <<116, 101, 120, 116, 47, 104, 116, 109, 108>>],  \* '.html': 'text/html'
       [ext |-> <<46, 99, 115, 115>>, type |-> <<116, 101, 120, 116, 47, 99, 115, 115>>],  \* '.css': 'text/css'
       [ext |-> <<46, 106, 115>>, type |-> <<97, 112, 112, 108, 105, 99, 97, 116, 105, 111, 110, 47, 106, 97, 118, 97, 115, 99, 114, 105, 112, 116>>],  \* '.js': 'application/javascript'
       [ext |-> <<46, 106, 115, 111, 110>>, type |-> <<97, 112, 112, 108, 105, 99, 97, 116, 105, 111, 110, 47, 106, 115, 111, 110>>],  \* '.json': 'application/json'
       [ext |-> <<46, 112, 110, 103>>, type |-> <<105, 109, 97, 103, 101, 47, 112, 110, 103>>],  \* '.png': 'image/png'
       [ext |-> <<46, 106, 112, 103>>, type |-> <<105, 109, 97, 103, 101, 47, 106, 112, 101, 103>>],  \* '.jpg': 'image/jpeg'
       [ext |-> <<46, 106, 112, 101, 103>>, type |-> <<105, 109, 97, 103, 101, 47, 106, 112, 101, 103>>],  \* '.jpeg': 'image/jpeg'
       [ext |-> <<46, 103, 105, 102>>, type |-> <<105, 109, 97, 103, 101, 47, 103, 105, 102>>],  \* '.gif': 'image/gif'
       [ext |-> <<46, 115, 118, 103>>, type |-> <<105, 109, 97, 103, 101, 47, 115, 118, 103, 43, 120, 109, 108>>],  \* '.svg': 'image/svg+xml'
       [ext |-> <<46, 105, 99, 111>>, type |-> <<105, 109, 97, 103, 101, 47, 120, 45, 105, 99, 111, 110>>],  \* '.ico': 'image/x-icon'
       [ext |-> <<46, 119, 111, 102, 102>>, type |-> <<102, 111, 110, 116, 47, 119, 111, 102, 102>>],  \* '.woff': 'font/woff'
       [ext |-> <<46, 119, 111, 102, 102, 50>>, type |-> <<102, 111, 110, 116, 47, 119, 111, 102, 102, 50>>],  \* '.woff2': 'font/woff2'
       [ext |-> <<46, 116, 116, 102>>, type |-> <<102, 111, 110, 116, 47, 116, 116, 102>>],  \* '.ttf': 'font/ttf'
       [ext |-> <<46, 101, 111, 116>>, type |-> <<97, 112, 112, 108, 105, 99, 97, 116, 105, 111, 110, 47, 118, 110, 100, 46, 109, 115, 45, 102, 111, 110, 116, 111, 98, 106, 101, 99, 116>>]  \* '.eot': 'application/vnd.ms-fontobject'
    }

\* the securityHeaders object of handler.js
securityHeaders ==
    [k \in {"Strict-Transport-Security", "X-Content-Type-Options", "X-Frame-Options",
            "X-XSS-Protection", "Referrer-Policy", "Content-Security-Policy"} |->
        CASE k = "Strict-Transport-Security" -> "max-age=31536000; includeSubDomains"
          [] k = "X-Content-Type-Options" -> "nosniff"
          [] k = "X-Frame-Options" -> "DENY"
          [] k = "X-XSS-Protection" -> "1; mode=block"
          [] k = "Referrer-Policy" -> "strict-origin-when-cross-origin"
          [] k = "Content-Security-Policy" -> "default-src 'self'; script-src 'self' 'unsafe-inline' https://fonts.googleapis.com; style-src 'self' 'unsafe-inline' https://fonts.googleapis.com; font-src 'self' https://fonts.gstatic.com; img-src 'self' data: https:; connect-src 'self'; frame-ancestors 'none';"]

\* the corsHeaders object of handler.js and of the API handler
corsHeaders ==
    [k \in {"Access-Control-Allow-Origin", "Access-Control-Allow-Headers",
            "Access-Control-Allow-Methods", "Access-Control-Max-Age"} |->
        CASE k = "Access-Control-Allow-Origin" -> "https://cert.danieloo.com"
          [] k = "Access-Control-Allow-Headers" -> "Content-Type, Authorization"
          [] k = "Access-Control-Allow-Methods" -> "GET, POST, OPTIONS"
          [] k = "Access-Control-Max-Age" -> "86400"]

\* getContentType looking the extension up as written
getContentTypeCaseSensitive(filePath) ==
    LET ext == extname(filePath)
        m   == {r \in mimeTypes : r.ext = ext}
    IN  IF m = {} THEN S_octet_stream ELSE (CHOOSE r \in m : TRUE).type

\* getContentType(filePath) (lines 36-39)
getContentType(filePath) ==
    LET ext == toLowerCase(extname(filePath))
        m   == {r \in mimeTypes : r.ext = ext}
    IN  IF m = {} THEN S_octet_stream ELSE (CHOOSE r \in m : TRUE).type

\* __dirname of handler.js in the deployed package
S_dirname == <<47, 118, 97, 114, 47, 116, 97, 115, 107, 47, 108, 97, 109, 98, 100, 97>>  \* "/var/task/lambda"

\* path.join(__dirname, '..', filePath)
fullPathOf(filePath) == pathJoin(pathJoin(S_dirname, S_dotdot), filePath)

\* the cache key handleStaticFile derives from the request path (lines 66-70)
staticFilePath(requestedPath) ==
    LET p1 == IF requestedPath = S_slash THEN S_index_html ELSE requestedPath
        p2 == IF startsWith(p1, S_slash) THEN SubSeq(p1, 2, Len(p1)) ELSE p1
    IN  pathJoin(S_dist, p2)

P_logo_bare == <<108, 111, 103, 111, 46, 112, 110, 103>>  \* "logo.png"
P_missing == <<47, 97, 98, 111, 117, 116>>  \* "/about"
P_traversal == <<47, 46, 46, 47, 108, 97, 109, 98, 100, 97, 47, 104, 97, 110, 100, 108, 101, 114, 46, 106, 115>>  \* "/../lambda/handler.js"

\* the request paths the model sends to the static Lambda
RequestPaths == {S_slash, P_logo_bare, P_missing, P_traversal}

\* the request paths used to resolve one file of each content class
ResolvePath ==
    [css |-> <<47, 97, 112, 112, 46, 99, 115, 115>>,  \* "/app.css"
     js |-> <<47, 97, 112, 112, 46, 106, 115>>,  \* "/app.js"
     json |-> <<47, 100, 97, 116, 97, 46, 106, 115, 111, 110>>,  \* "/data.json"
     html |-> <<47, 112, 97, 103, 101, 46, 104, 116, 109, 108>>,  \* "/page.html"
     png_upper |-> <<47, 76, 79, 71, 79, 46, 80, 78, 71>>,  \* "/LOGO.PNG"
     svg |-> <<47, 105, 99, 111, 110, 46, 115, 118, 103>>,  \* "/icon.svg"
     txt |-> <<47, 114, 111, 98, 111, 116, 115, 46, 116, 120, 116>>,  \* "/robots.txt"
     noext |-> <<47, 77, 97, 107, 101, 102, 105, 108, 101>>,  \* "/Makefile"
     dotfile |-> <<47, 46, 106, 115, 111, 110>>,  \* "/.json"
     nested |-> <<47, 118, 49, 46, 50, 47, 102, 111, 110, 116, 46, 119, 111, 102, 102, 50>>]  \* "/v1.2/font.woff2"

ResolvePaths == {ResolvePath[k] : k \in DOMAIN ResolvePath}

\* The path computations of the request paths, as tables: TLC evaluates a
\* constant table once instead of once per step.
filePathTable == [p \in RequestPaths \cup ResolvePaths |-> staticFilePath(p)]
CacheKeys == {filePathTable[p] : p \in RequestPaths \cup ResolvePaths} \cup {S_dist_index}
fullPathTable == [k \in CacheKeys |-> fullPathOf(k)]
contentTypeTable == [k \in CacheKeys |-> getContentType(k)]

\* fs.readFileSync(fullPath) on the file system f: the bytes, or null when
\* the call throws (no such file, or not a regular file)
readFileSync(f, fullPath) ==
    IF fullPath \in DOMAIN f /\ f[fullPath].exists THEN Some(f[fullPath].bytes) ELSE Null

\* cache.set that leaves an entry already there as it is
cacheSetIfAbsent(c, filePath, content, timestamp) ==
    IF filePath \in DOMAIN c THEN c
    ELSE spread(c, prop(filePath, [content |-> content, timestamp |-> timestamp]))

\* cache.set(filePath, { content, timestamp }) (lines 52-55)
cacheSet(c, filePath, content, timestamp) ==
    spread(c, prop(filePath, [content |-> content, timestamp |-> timestamp]))

\* getCachedFile dropping the entry of a key whose file can no longer be read
getCachedFileEvict(c, f, t, filePath) ==
    LET lookup(cached, rd) ==
            LET found == IF cached
                         THEN [any |-> TRUE, timestamp |-> c[filePath].timestamp]
                         ELSE [any |-> FALSE, timestamp |-> 0]
            IN  IF cached /\ t - c[filePath].timestamp < CACHE_TTL
                THEN [content |-> Some(c[filePath].content), cache |-> c,
                      lookup |-> [key |-> filePath, found |-> found, read |-> FALSE,
                                  result |-> Some(c[filePath].content)]]
                ELSE IF rd.ok
                THEN [content |-> rd,
                      cache |-> cacheSet(c, filePath, rd.bytes, t),
                      lookup |-> [key |-> filePath, found |-> found, read |-> TRUE, result |-> rd]]
                ELSE [content |-> Null, cache |-> [k \in DOMAIN c \ {filePath} |-> c[k]],
                      lookup |-> [key |-> filePath, found |-> found, read |-> TRUE, result |-> Null]]
    IN  lookup(filePath \in DOMAIN c, readFileSync(f, fullPathTable[filePath]))

\* getCachedFile remembering a failed read as an empty file
getCachedFileStoreFailure(c, f, t, filePath) ==
    LET lookup(cached, rd) ==
            LET found == IF cached
                         THEN [any |-> TRUE, timestamp |-> c[filePath].timestamp]
                         ELSE [any |-> FALSE, timestamp |-> 0]
            IN  IF cached /\ t - c[filePath].timestamp < CACHE_TTL
                THEN [content |-> Some(c[filePath].content), cache |-> c,
                      lookup |-> [key |-> filePath, found |-> found, read |-> FALSE,
                                  result |-> Some(c[filePath].content)]]
                ELSE IF rd.ok
                THEN [content |-> rd,
                      cache |-> cacheSet(c, filePath, rd.bytes, t),
                      lookup |-> [key |-> filePath, found |-> found, read |-> TRUE, result |-> rd]]
                ELSE [content |-> Null, cache |-> cacheSet(c, filePath, <<>>, t),
                      lookup |-> [key |-> filePath, found |-> found, read |-> TRUE, result |-> Null]]
    IN  lookup(filePath \in DOMAIN c, readFileSync(f, fullPathTable[filePath]))

\* getCachedFile with the expiry test off by one: an entry exactly TTL old
\* is still served
getCachedFileLeq(c, f, t, filePath) ==
    LET lookup(cached, rd) ==
            LET found == IF cached
                         THEN [any |-> TRUE, timestamp |-> c[filePath].timestamp]
                         ELSE [any |-> FALSE, timestamp |-> 0]
            IN  IF cached /\ t - c[filePath].timestamp <= CACHE_TTL
                THEN [content |-> Some(c[filePath].content), cache |-> c,
                      lookup |-> [key |-> filePath, found |-> found, read |-> FALSE,
                                  result |-> Some(c[filePath].content)]]
                ELSE IF rd.ok
                THEN [content |-> rd,
                      cache |-> cacheSet(c, filePath, rd.bytes, t),
                      lookup |-> [key |-> filePath, found |-> found, read |-> TRUE, result |-> rd]]
                ELSE [content |-> Null, cache |-> c,
                      lookup |-> [key |-> filePath, found |-> found, read |-> TRUE, result |-> Null]]
    IN  lookup(filePath \in DOMAIN c, readFileSync(f, fullPathTable[filePath]))

\* getCachedFile(filePath) at time t on the cache c and the file system f:
\* the returned content, the cache afterwards, and a record of the lookup
\* (the entry found, whether the file was read, what was returned)
getCachedFile(c, f, t, filePath) ==
    LET lookup(cached, rd) ==
            LET found == IF cached
                         THEN [any |-> TRUE, timestamp |-> c[filePath].timestamp]
                         ELSE [any |-> FALSE, timestamp |-> 0]
            IN  IF cached /\ t - c[filePath].timestamp < CACHE_TTL
                THEN [content |-> Some(c[filePath].content), cache |-> c,
                      lookup |-> [key |-> filePath, found |-> found, read |-> FALSE,
                                  result |-> Some(c[filePath].content)]]
                ELSE IF rd.ok
                THEN [content |-> rd,
                      cache |-> cacheSet(c, filePath, rd.bytes, t),
                      lookup |-> [key |-> filePath, found |-> found, read |-> TRUE, result |-> rd]]
                ELSE [content |-> Null, cache |-> c,
                      lookup |-> [key |-> filePath, found |-> found, read |-> TRUE, result |-> Null]]
    IN  lookup(filePath \in DOMAIN c, readFileSync(f, fullPathTable[filePath]))

S_body404 == <<60, 104, 49, 62, 52, 48, 52, 32, 45, 32, 78, 111, 116, 32, 70, 111, 117, 110, 100, 60, 47, 104, 49, 62, 60, 112, 62, 84, 104, 101, 32, 114, 101, 113, 117, 101, 115, 116, 101, 100, 32, 114, 101, 115, 111, 117, 114, 99, 101, 32, 119, 97, 115, 32, 110, 111, 116, 32, 102, 111, 117, 110, 100, 46, 60, 47, 112, 62>>  \* "<h1>404 - Not Found</h1><p>The requested resource was not found.</p>"

\* a string body
TextBody(s) == [kind |-> "text", text |-> s]

\* a JSON.stringify(value) body
JsonBody(v) == [kind |-> "json", value |-> v]

\* the SPA fallback answered as a 404 that carries the root document
fallbackResponseAs404(indexContent) ==
    [statusCode |-> 404,
     headers |-> spread(spread(prop("Content-Type", S_text_html), securityHeaders),
                        prop("Cache-Control", "no-cache, no-store, must-revalidate")),
     body |-> TextBody(toString(indexContent))]

\* the SPA fallback envelope (lines 78-86)
fallbackResponse(indexContent) ==
    [statusCode |-> 200,
     headers |-> spread(spread(prop("Content-Type", S_text_html), securityHeaders),
                        prop("Cache-Control", "no-cache, no-store, must-revalidate")),
     body |-> TextBody(toString(indexContent))]

\* the 404 envelope (lines 89-96)
notFoundResponse ==
    [statusCode |-> 404,
     headers |-> spread(prop("Content-Type", S_text_html), securityHeaders),
     body |-> TextBody(S_body404)]

\* the Cache-Control choice keyed on the 'text/' prefix
cacheControlOfTextPrefix(contentType) ==
    IF startsWith(contentType, S_text_slash)
    THEN "no-cache, no-store, must-revalidate"
    ELSE IF contentType = S_application_json
    THEN "public, max-age=3600"
    ELSE "public, max-age=31536000, immutable"

\* cacheControl of handleStaticFile (lines 105-110)
cacheControlOf(contentType) ==
    IF contentType = S_text_html
    THEN "no-cache, no-store, must-revalidate"
    ELSE IF contentType = S_application_json
    THEN "public, max-age=3600"
    ELSE "public, max-age=31536000, immutable"

\* handleStaticFile(requestedPath): the response, the cache afterwards and the
\* lookups made
handleStaticFile(c, f, t, requestedPath) ==
    LET found(filePath, g1, contentType) ==
            LET typed(isText, cacheControl) ==
                    [response |->
                        [statusCode |-> 200,
                         headers |-> spread(spread(prop("Content-Type", contentType),
                                                   prop("Cache-Control", cacheControl)),
                                            securityHeaders),
                         body |-> TextBody(IF isText THEN toString(g1.content.bytes)
                                           ELSE toBase64(g1.content.bytes)),
                         isBase64Encoded |-> ~isText],
                     cache |-> g1.cache, lookups |-> <<g1.lookup>>]
            IN  typed(startsWith(contentType, S_text_slash)
                        \/ includes(contentType, S_javascript)
                        \/ includes(contentType, S_json),
                      cacheControlOf(contentType))
        missing(g1, g2) ==
            [response |-> IF g2.content.ok THEN fallbackResponse(g2.content.bytes)
                          ELSE notFoundResponse,
             cache |-> g2.cache, lookups |-> <<g1.lookup, g2.lookup>>]
        looked(filePath, g1) ==
            IF ~g1.content.ok
            THEN missing(g1, getCachedFile(g1.cache, f, t, S_dist_index))
            ELSE found(filePath, g1, contentTypeTable[filePath])
        keyed(filePath) == looked(filePath, getCachedFile(c, f, t, filePath))
    IN  keyed(filePathTable[requestedPath])

\* the 500 envelope of handler.js's catch block
staticError500 ==
    [statusCode |-> 500,
     headers |-> spread(prop("Content-Type", S_application_json), securityHeaders),
     body |-> JsonBody([error |-> "Internal Server Error",
                        message |-> "An unexpected error occurred"])]

\* exports.handler of handler.js on the event ev
staticHandler(c, f, t, ev) ==
    LET get(r) ==
            [response |-> [r.response EXCEPT !.headers = spread(@, corsHeaders)],
             cache |-> r.cache, lookups |-> r.lookups]
    IN  IF ~ev.hasCtx
        THEN \* requestContext.http throws a TypeError, caught at line 176
             [response |-> staticError500, cache |-> c, lookups |-> <<>>]
        ELSE IF ev.method = "OPTIONS"
        THEN [response |-> [statusCode |-> 200,
                            headers |-> spread(corsHeaders, securityHeaders),
                            body |-> TextBody(<<>>)],
              cache |-> c, lookups |-> <<>>]
        ELSE IF ev.method = "GET"
        THEN get(handleStaticFile(c, f, t,
                                  IF ev.hasPath /\ ev.rawPath # <<>> THEN ev.rawPath ELSE S_slash))
        ELSE [response |->
                 [statusCode |-> 405,
                  headers |-> spread(spread(prop("Content-Type", S_application_json), corsHeaders),
                                     securityHeaders),
                  body |-> JsonBody([error |-> "Method Not Allowed",
                                     message |-> <<"HTTP method ", ev.method, " is not supported">>])],
              cache |-> c, lookups |-> <<>>]

----------------------------------------------------------------------------
(* Dates.  Every modelled date string is date-only (YYYY-MM-DD), which     *)
(* JavaScript reads as UTC midnight; a Date value is counted in days since *)
(* 1970-01-01.                                                             *)

IsDigit(c) == c >= 48 /\ c <= 57

\* days since 1970-01-01 of the civil date y-m-d
daysFromCivil(y, m, d) ==
    LET y2  == IF m <= 2 THEN y - 1 ELSE y
        era == y2 \div 400
        yoe == y2 - era * 400
        mp  == IF m > 2 THEN m - 3 ELSE m + 9
        doy == ((153 * mp + 2) \div 5) + d - 1
        doe == (yoe * 365) + (yoe \div 4) - (yoe \div 100) + doy
    IN  (era * 146097) + doe - 719468

\* the civil date of a day number
civilFromDays(z) ==
    LET z2  == z + 719468
        era == z2 \div 146097
        doe == z2 - era * 146097
        yoe == (doe - (doe \div 1460) + (doe \div 36524) - (doe \div 146096)) \div 365
        doy == doe - ((365 * yoe) + (yoe \div 4) - (yoe \div 100))
        mp  == (5 * doy + 2) \div 153
        d   == doy - ((153 * mp + 2) \div 5) + 1
        m   == IF mp < 10 THEN mp + 3 ELSE mp - 9
        y   == yoe + (era * 400) + (IF m <= 2 THEN 1 ELSE 0)
    IN  [y |-> y, m |-> m, d |-> d]

NaN == [nan |-> TRUE, days |-> 0]

\* new Date(s)
newDate(s) ==
    IF Len(s) = 10 /\ s[5] = 45 /\ s[8] = 45
       /\ \A i \in {1, 2, 3, 4, 6, 7, 9, 10} : IsDigit(s[i])
    THEN LET y == (s[1] - 48) * 1000 + (s[2] - 48) * 100 + (s[3] - 48) * 10 + (s[4] - 48)
             m == (s[6] - 48) * 10 + (s[7] - 48)
             d == (s[9] - 48) * 10 + (s[10] - 48)
         IN  IF m >= 1 /\ m <= 12 /\ d >= 1 /\ d <= 31
             THEN [nan |-> FALSE, days |-> daysFromCivil(y, m, d)]
             ELSE NaN
    ELSE NaN

S_T000 == <<84, 48, 48, 58, 48, 48, 58, 48, 48, 46, 48, 48, 48, 90>>  \* "T00:00:00.000Z"

\* Date.prototype.toISOString() of a day number (years 0000-9999)
toISOString(days) ==
    LET c == civilFromDays(days)
    IN  <<48 + (c.y \div 1000), 48 + ((c.y \div 100) % 10), 48 + ((c.y \div 10) % 10), 48 + (c.y % 10),
          45, 48 + (c.m \div 10), 48 + (c.m % 10), 45, 48 + (c.d \div 10), 48 + (c.d % 10)>> \o S_T000

----------------------------------------------------------------------------
(* src/unnamed/part_002: the data API Lambda *)

API_CACHE_TTL == 600000

S_dataPath == <<46, 46, 47, 100, 97, 116, 97, 47, 99, 101, 114, 116, 115, 46, 106, 115, 111, 110>>  \* "../data/certs.json"

\* obj.k is present (neither undefined nor null)
Has(obj, k) == k \in DOMAIN obj

\* loadCertData falling back on the dataset it holds when the file cannot
\* be read or parsed
loadCertDataServeStale(cd, ts, df, t) ==
    LET found == [any |-> ~cd.isNull, timestamp |-> ts]
    IN  IF ~cd.isNull /\ t - ts < API_CACHE_TTL
        THEN [result |-> cd.certs, certData |-> cd, certDataTimestamp |-> ts,
              lookup |-> [key |-> S_dataPath, found |-> found, read |-> FALSE,
                          ok |-> TRUE, value |-> cd.certs]]
        ELSE IF df.kind = "array"
        THEN [result |-> df.certs,
              certData |-> [isNull |-> FALSE, certs |-> df.certs],
              certDataTimestamp |-> t,
              lookup |-> [key |-> S_dataPath, found |-> found, read |-> TRUE,
                          ok |-> TRUE, value |-> df.certs]]
        ELSE [result |-> cd.certs, certData |-> cd, certDataTimestamp |-> ts,
              lookup |-> [key |-> S_dataPath, found |-> found, read |-> TRUE,
                          ok |-> FALSE, value |-> cd.certs]]

\* loadCertData keeping only a dataset that has records
loadCertDataForgetEmpty(cd, ts, df, t) ==
    LET found == [any |-> ~cd.isNull, timestamp |-> ts]
    IN  IF ~cd.isNull /\ t - ts < API_CACHE_TTL
        THEN [result |-> cd.certs, certData |-> cd, certDataTimestamp |-> ts,
              lookup |-> [key |-> S_dataPath, found |-> found, read |-> FALSE,
                          ok |-> TRUE, value |-> cd.certs]]
        ELSE IF df.kind = "array" /\ df.certs # <<>>
        THEN [result |-> df.certs,
              certData |-> [isNull |-> FALSE, certs |-> df.certs],
              certDataTimestamp |-> t,
              lookup |-> [key |-> S_dataPath, found |-> found, read |-> TRUE,
                          ok |-> TRUE, value |-> df.certs]]
        ELSE [result |-> <<>>, certData |-> cd, certDataTimestamp |-> ts,
              lookup |-> [key |-> S_dataPath, found |-> found, read |-> TRUE,
                          ok |-> df.kind = "array", value |-> <<>>]]

\* loadCertData remembering a failed read as an empty dataset loaded now
loadCertDataRemember(cd, ts, df, t) ==
    LET found == [any |-> ~cd.isNull, timestamp |-> ts]
    IN  IF ~cd.isNull /\ t - ts < API_CACHE_TTL
        THEN [result |-> cd.certs, certData |-> cd, certDataTimestamp |-> ts,
              lookup |-> [key |-> S_dataPath, found |-> found, read |-> FALSE,
                          ok |-> TRUE, value |-> cd.certs]]
        ELSE IF df.kind = "array"
        THEN [result |-> df.certs,
              certData |-> [isNull |-> FALSE, certs |-> df.certs],
              certDataTimestamp |-> t,
              lookup |-> [key |-> S_dataPath, found |-> found, read |-> TRUE,
                          ok |-> TRUE, value |-> df.certs]]
        ELSE [result |-> <<>>, certData |-> [isNull |-> FALSE, certs |-> <<>>],
              certDataTimestamp |-> t,
              lookup |-> [key |-> S_dataPath, found |-> found, read |-> TRUE,
                          ok |-> FALSE, value |-> <<>>]]

\* loadCertData() at time t, on the module state (cd, ts) and the backing
\* file df: the returned list, the module state afterwards, and a record of
\* the lookup (the entry found, whether the file was read, what was returned)
loadCertData(cd, ts, df, t) ==
    LET found == [any |-> ~cd.isNull, timestamp |-> ts]
    IN  IF ~cd.isNull /\ t - ts < API_CACHE_TTL
        THEN [result |-> cd.certs, certData |-> cd, certDataTimestamp |-> ts,
              lookup |-> [key |-> S_dataPath, found |-> found, read |-> FALSE,
                          ok |-> TRUE, value |-> cd.certs]]
        ELSE IF df.kind = "array"
        THEN [result |-> df.certs,
              certData |-> [isNull |-> FALSE, certs |-> df.certs],
              certDataTimestamp |-> t,
              lookup |-> [key |-> S_dataPath, found |-> found, read |-> TRUE,
                          ok |-> TRUE, value |-> df.certs]]
        ELSE \* readFileSync or JSON.parse throws: caught, [] is returned
             [result |-> <<>>, certData |-> cd, certDataTimestamp |-> ts,
              lookup |-> [key |-> S_dataPath, found |-> found, read |-> TRUE,
                          ok |-> FALSE, value |-> <<>>]]

requiredFields ==
    {"country", "name", "fullName", "website", "emergencyContact", "email",
     "established", "description", "sector", "verified", "lastUpdated"}

\* validateCertData(data)
validateCertData(data) ==
    \A i \in 1..Len(data) :
        LET cert == data[i]
            hasRequiredFields == \A field \in requiredFields : Has(cert, field)
            hasValidPgpKey ==
                /\ Has(cert, "pgpKey")
                /\ Has(cert.pgpKey, "available")
                /\ (cert.pgpKey.available = FALSE \/ Has(cert.pgpKey, "keyId"))
        IN  hasRequiredFields /\ hasValidPgpKey

\* a filter value is truthy: neither null nor the empty string
Truthy(filters, k) == Has(filters, k) /\ filters[k] # <<>>

\* the sector filter applied to every non-empty value, the literal 'all'
\* included
sectorFilterAppliesToAll(filters) == Truthy(filters, "sector")

\* the sector filter is applied (line 67)
sectorFilterApplies(filters) == Truthy(filters, "sector") /\ filters["sector"] # S_all

\* filterCerts(certs, filters)
filterCerts(certs, filters) ==
    LET bySearch(cert) ==
            LET searchTerm == toLowerCase(filters["search"])
            IN  \/ includes(toLowerCase(cert.country), searchTerm)
                \/ includes(toLowerCase(cert.name), searchTerm)
                \/ includes(toLowerCase(cert.fullName), searchTerm)
                \/ includes(toLowerCase(cert.sector), searchTerm)
                \/ includes(toLowerCase(cert.description), searchTerm)
        bySector(cert) == toLowerCase(cert.sector) = toLowerCase(filters["sector"])
        byCountry(cert) == toLowerCase(cert.country) = toLowerCase(filters["country"])
        byPgp(cert) == Has(cert, "pgpKey") /\ cert.pgpKey.available = TRUE
        f0 == certs
        f1 == IF Truthy(filters, "search") THEN SelectSeq(f0, bySearch) ELSE f0
        f2 == IF sectorFilterApplies(filters)
              THEN SelectSeq(f1, bySector) ELSE f1
        f3 == IF Truthy(filters, "country") THEN SelectSeq(f2, byCountry) ELSE f2
        f4 == IF Has(filters, "pgp") /\ filters["pgp"] = S_true
              THEN SelectSeq(f3, byPgp) ELSE f3
    IN  f4

\* certs.reduce(...) of getStats: the sector histogram
RECURSIVE sectorsCountReduce(_, _)
sectorsCountReduce(certs, acc) ==
    IF certs = <<>> THEN acc
    ELSE LET s == Head(certs).sector
             n == IF s \in DOMAIN acc THEN acc[s] ELSE 0
         IN  sectorsCountReduce(Tail(certs), spread(acc, prop(s, n + 1)))

\* the reduce of getStats with the comparison turned round
RECURSIVE latestReduceLess(_, _)
latestReduceLess(certs, latest) ==
    IF certs = <<>> THEN latest
    ELSE LET certDate == newDate(Head(certs).lastUpdated)
         IN  latestReduceLess(Tail(certs),
                              IF ~certDate.nan /\ certDate.days < latest THEN certDate.days ELSE latest)

\* certs.reduce(...) of getStats: the latest lastUpdated, from new Date(0)
RECURSIVE latestReduce(_, _)
latestReduce(certs, latest) ==
    IF certs = <<>> THEN latest
    ELSE LET certDate == newDate(Head(certs).lastUpdated)
         IN  latestReduce(Tail(certs),
                          IF ~certDate.nan /\ certDate.days > latest THEN certDate.days ELSE latest)

\* getStats(certs)
getStats(certs) ==
    LET isPgp(cert) == Has(cert, "pgpKey") /\ cert.pgpKey.available
    IN  [totalCerts |-> Len(certs),
         totalCountries |-> Cardinality({certs[i].country : i \in 1..Len(certs)}),
         sectorsCount |-> sectorsCountReduce(certs, <<>>),
         pgpEnabled |-> Len(SelectSeq(certs, isPgp)),
         lastUpdated |-> toISOString(latestReduce(certs, 0)),
         verificationRate |-> "100%"]

\* [...new Set(xs)]: the distinct values in order of first occurrence
RECURSIVE distinct(_, _)
distinct(xs, seen) ==
    IF xs = <<>> THEN seen
    ELSE distinct(Tail(xs),
                  IF \E i \in 1..Len(seen) : seen[i] = Head(xs) THEN seen
                  ELSE Append(seen, Head(xs)))

\* x inserted into the sorted sequence xs
RECURSIVE insertSorted(_, _)
insertSorted(xs, x) ==
    IF xs = <<>> THEN <<x>>
    ELSE IF StrLess(x, Head(xs)) THEN <<x>> \o xs
    ELSE <<Head(xs)>> \o insertSorted(Tail(xs), x)

\* a sort that leaves the array in insertion order
sortNone(xs) == xs

\* Array.prototype.sort() of strings: ascending by UTF-16 code units
RECURSIVE sort(_)
sort(xs) == IF xs = <<>> THEN <<>> ELSE insertSorted(sort(Tail(xs)), Head(xs))

\* the /countries view (lines 224-229)
countriesView(certs) ==
    LET names  == distinct([i \in 1..Len(certs) |-> certs[i].country], <<>>)
        sorted == sort(names)
    IN  [i \in 1..Len(sorted) |->
            [name |-> sorted[i],
             count |-> Cardinality({j \in 1..Len(certs) : certs[j].country = sorted[i]})]]

\* the /sectors reduce with a group's count started at 1 and incremented
\* for its first record as well
RECURSIVE sectorsReduceFromOne(_, _)
sectorsReduceFromOne(certs, acc) ==
    IF certs = <<>> THEN acc
    ELSE LET cert == Head(certs)
             acc1 == IF \E i \in 1..Len(acc) : acc[i].name = cert.sector THEN acc
                     ELSE Append(acc, [name |-> cert.sector, count |-> 1, certs |-> <<>>])
             k    == CHOOSE i \in 1..Len(acc1) : acc1[i].name = cert.sector
             acc2 == [acc1 EXCEPT ![k] =
                        [name |-> @.name, count |-> @.count + 1,
                         certs |-> Append(@.certs, [name |-> cert.name, country |-> cert.country])]]
         IN  sectorsReduceFromOne(Tail(certs), acc2)

\* the /sectors reduce (lines 238-252): the groups in insertion order
RECURSIVE sectorsReduce(_, _)
sectorsReduce(certs, acc) ==
    IF certs = <<>> THEN acc
    ELSE LET cert == Head(certs)
             acc1 == IF \E i \in 1..Len(acc) : acc[i].name = cert.sector THEN acc
                     ELSE Append(acc, [name |-> cert.sector, count |-> 0, certs |-> <<>>])
             k    == CHOOSE i \in 1..Len(acc1) : acc1[i].name = cert.sector
             acc2 == [acc1 EXCEPT ![k] =
                        [name |-> @.name, count |-> @.count + 1,
                         certs |-> Append(@.certs, [name |-> cert.name, country |-> cert.country])]]
         IN  sectorsReduce(Tail(certs), acc2)

\* the /sectors view: Object.values(sectors)
sectorsView(certs) == sectorsReduce(certs, <<>>)

\* a /countries route that reverses the shared certs array in place
routeEffectReverse(certs, apiPath) ==
    IF apiPath = <<47, 99, 111, 117, 110, 116, 114, 105, 101, 115>>
    THEN [i \in 1..Len(certs) |-> certs[Len(certs) + 1 - i]]
    ELSE certs

\* what serving a GET route leaves in the shared certs array: no route of
\* lines 201-272 writes to it (filterCerts copies, sort() runs on a new array)
routeEffect(certs, apiPath) == certs

\* the securityHeaders object of the API handler
apiSecurityHeaders ==
    [k \in {"X-Content-Type-Options", "X-Frame-Options", "X-XSS-Protection"} |->
        CASE k = "X-Content-Type-Options" -> "nosniff"
          [] k = "X-Frame-Options" -> "DENY"
          [] k = "X-XSS-Protection" -> "1; mode=block"]

AP_root == <<47>>  \* "/"
AP_certs == <<47, 99, 101, 114, 116, 115>>  \* "/certs"
AP_stats == <<47, 115, 116, 97, 116, 115>>  \* "/stats"
AP_countries == <<47, 99, 111, 117, 110, 116, 114, 105, 101, 115>>  \* "/countries"
AP_sectors == <<47, 115, 101, 99, 116, 111, 114, 115>>  \* "/sectors"
AP_health == <<47, 104, 101, 97, 108, 116, 104>>  \* "/health"

\* Math.max(...certs.map(c => new Date(c.lastUpdated).getTime())), in days
RECURSIVE maxTime(_)
maxTime(certs) ==
    IF Len(certs) = 1 THEN newDate(certs[1].lastUpdated)
    ELSE LET a == newDate(Head(certs).lastUpdated)
             b == maxTime(Tail(certs))
         IN  IF a.nan \/ b.nan THEN NaN ELSE IF a.days > b.days THEN a ELSE b

\* apiPath = rawPath.replace('/api', '') || '/'
apiPathOf(rawPath) ==
    LET p == replaceFirst(rawPath, S_api) IN IF p = <<>> THEN AP_root ELSE p

\* the headers of the API handler's JSON error envelopes
apiErrorHeaders ==
    spread(spread(prop("Content-Type", S_application_json), corsHeaders), apiSecurityHeaders)

\* the 500 envelope of the API handler's catch block
apiError500(t) ==
    [statusCode |-> 500,
     headers |-> apiErrorHeaders,
     body |-> JsonBody([error |-> "Internal Server Error",
                        message |-> "An unexpected error occurred",
                        timestamp |-> t])]

\* the / and /certs routes with total taken from the unfiltered list
certsRouteTotalAll(certs, filters) ==
    LET filteredCerts == filterCerts(certs, filters)
    IN  [success |-> TRUE, data |-> filteredCerts, total |-> Len(certs),
         filters |-> filters]

\* the default route answering with an error field alone
apiNotFoundBare(apiPath) ==
    [statusCode |-> 404,
     headers |-> apiErrorHeaders,
     body |-> JsonBody([error |-> "Not Found"])]

\* the 404 envelope of the default route (lines 274-287)
apiNotFound(apiPath) ==
    [statusCode |-> 404,
     headers |-> apiErrorHeaders,
     body |-> JsonBody([error |-> "Not Found",
                        message |-> <<"API endpoint ", apiPath, " not found">>])]

\* the response object of the / and /certs routes (lines 204-212)
certsRoute(certs, filters) ==
    LET filteredCerts == filterCerts(certs, filters)
    IN  [success |-> TRUE, data |-> filteredCerts, total |-> Len(filteredCerts),
         filters |-> filters]

\* the response object of a recognised route (lines 201-272)
routeResponse(certs, apiPath, filters, t) ==
    IF apiPath = AP_root \/ apiPath = AP_certs
    THEN certsRoute(certs, filters)
    ELSE IF apiPath = AP_stats
    THEN [success |-> TRUE, data |-> getStats(certs)]
    ELSE IF apiPath = AP_countries
    THEN [success |-> TRUE, data |-> countriesView(certs)]
    ELSE IF apiPath = AP_sectors
    THEN [success |-> TRUE, data |-> sectorsView(certs)]
    ELSE [success |-> TRUE, status |-> "healthy", timestamp |-> t, version |-> "1.0",
          dataStatus |-> [certsLoaded |-> Len(certs),
                          lastUpdate |-> IF Len(certs) > 0 THEN maxTime(certs) ELSE [nan |-> FALSE, days |-> 0]]]

\* the validation of lines 193-196 turning a rejected dataset into the
\* error envelope
afterValidationRejecting(valid, r, t) ==
    IF valid THEN r ELSE [r EXCEPT !.response = apiError500(t)]

\* lines 193-196: the outcome r of the request after validateCertData
\* returned valid; a rejection is logged with console.warn and nothing else
afterValidation(valid, r, t) == r

\* exports.handler of the API Lambda on the event ev
apiHandler(cd, ts, df, t, ev) ==
    IF ~ev.hasCtx \/ ~ev.hasPath
    THEN \* requestContext.http or rawPath.replace throws a TypeError (lines
         \* 135-136), caught at line 300
         [response |-> apiError500(t), certData |-> cd, certDataTimestamp |-> ts,
          lookups |-> <<>>]
    ELSE LET apiPath == apiPathOf(ev.rawPath)
             filters == ev.query
             ld      == loadCertData(cd, ts, df, t)
             certs   == ld.result
             after   == IF ld.certData.isNull THEN ld.certData
                        ELSE [ld.certData EXCEPT !.certs = routeEffect(@, apiPath)]
         IN  IF ev.method = "OPTIONS"
             THEN [response |-> [statusCode |-> 200,
                                 headers |-> spread(corsHeaders, apiSecurityHeaders),
                                 body |-> TextBody(<<>>)],
                   certData |-> cd, certDataTimestamp |-> ts, lookups |-> <<>>]
             ELSE IF ev.method # "GET"
             THEN [response |-> [statusCode |-> 405,
                                 headers |-> apiErrorHeaders,
                                 body |-> JsonBody([error |-> "Method Not Allowed",
                                                    message |-> <<"HTTP method ", ev.method, " is not supported">>])],
                   certData |-> cd, certDataTimestamp |-> ts, lookups |-> <<>>]
             ELSE IF Len(certs) = 0
             THEN [response |-> [statusCode |-> 500,
                                 headers |-> apiErrorHeaders,
                                 body |-> JsonBody([error |-> "Data Unavailable",
                                                    message |-> "CERT data could not be loaded"])],
                   certData |-> ld.certData, certDataTimestamp |-> ld.certDataTimestamp,
                   lookups |-> <<ld.lookup>>]
             ELSE afterValidation(validateCertData(certs),
                  IF apiPath \in {AP_root, AP_certs, AP_stats, AP_countries, AP_sectors, AP_health}
             THEN [response |->
                      [statusCode |-> 200,
                       headers |-> spread(spread(spread(prop("Content-Type", S_application_json),
                                                         prop("Cache-Control",
                                                              IF apiPath = AP_health THEN "no-cache"
                                                              ELSE "public, max-age=300")),
                                                  corsHeaders),
                                          apiSecurityHeaders),
                       body |-> JsonBody(routeResponse(certs, apiPath, filters, t))],
                   certData |-> after, certDataTimestamp |-> ld.certDataTimestamp,
                   lookups |-> <<ld.lookup>>]
             ELSE [response |-> apiNotFound(apiPath),
                   certData |-> ld.certData, certDataTimestamp |-> ld.certDataTimestamp,
                   lookups |-> <<ld.lookup>>],
                  t)

----------------------------------------------------------------------------
(* src/lambda/healthcheck.js: the health-check Lambda *)

\* the corsHeaders object of healthcheck.js
healthCorsHeaders ==
    [k \in {"Access-Control-Allow-Origin", "Access-Control-Allow-Headers",
            "Access-Control-Allow-Methods"} |->
        CASE k = "Access-Control-Allow-Origin" -> "*"
          [] k = "Access-Control-Allow-Headers" -> "Content-Type"
          [] k = "Access-Control-Allow-Methods" -> "GET, OPTIONS"]

\* the securityHeaders object of healthcheck.js
healthSecurityHeaders ==
    [k \in {"X-Content-Type-Options", "X-Frame-Options"} |->
        CASE k = "X-Content-Type-Options" -> "nosniff"
          [] k = "X-Frame-Options" -> "DENY"]

\* exports.handler of healthcheck.js on the event ev; df is the data file
\* that fs.statSync looks at.  The memory and uptime figures of the payload
\* are process metrics no branch reads; they are left out of the body.
healthHandler(df, t, ev) ==
    IF ~ev.hasCtx
    THEN [statusCode |-> 500,
          headers |-> spread(spread(prop("Content-Type", S_application_json), healthCorsHeaders),
                             healthSecurityHeaders),
          \* the catch block puts error.message of the TypeError in the body
          body |-> JsonBody([status |-> "unhealthy", timestamp |-> t,
                             error |-> "Cannot read properties of undefined (reading 'http')"])]
    ELSE IF ev.method = "OPTIONS"
    THEN [statusCode |-> 200,
          headers |-> spread(healthCorsHeaders, healthSecurityHeaders),
          body |-> TextBody(<<>>)]
    ELSE IF ev.method # "GET"
    THEN [statusCode |-> 405,
          headers |-> spread(spread(prop("Content-Type", S_application_json), healthCorsHeaders),
                             healthSecurityHeaders),
          body |-> JsonBody([error |-> "Method Not Allowed"])]
    ELSE LET statOk == df.kind # "missing"
             status == IF statOk THEN "healthy" ELSE "degraded"
         IN  [statusCode |-> IF status = "healthy" THEN 200 ELSE 503,
              headers |-> spread(spread(spread(prop("Content-Type", S_application_json),
                                                prop("Cache-Control", "no-cache, no-store, must-revalidate")),
                                         healthCorsHeaders),
                                 healthSecurityHeaders),
              body |-> JsonBody([status |-> status, timestamp |-> t, service |-> "CERTopedia",
                                 version |-> "1.0.0", stage |-> "prod", region |-> "unknown",
                                 checks |-> [lambda |-> "ok",
                                             dataFile |-> [status |-> IF statOk THEN "ok" ELSE "error"]]])]

----------------------------------------------------------------------------
(* The environment: files, datasets and events *)

F_index == <<47, 118, 97, 114, 47, 116, 97, 115, 107, 47, 100, 105, 115, 116, 47, 105, 110, 100, 101, 120, 46, 104, 116, 109, 108>>  \* "/var/task/dist/index.html"
F_logo == <<47, 118, 97, 114, 47, 116, 97, 115, 107, 47, 100, 105, 115, 116, 47, 108, 111, 103, 111, 46, 112, 110, 103>>  \* "/var/task/dist/logo.png"
F_handler == <<47, 118, 97, 114, 47, 116, 97, 115, 107, 47, 108, 97, 109, 98, 100, 97, 47, 104, 97, 110, 100, 108, 101, 114, 46, 106, 115>>  \* "/var/task/lambda/handler.js"
K_logo == <<100, 105, 115, 116, 47, 108, 111, 103, 111, 46, 112, 110, 103>>  \* "dist/logo.png"
K_handler == <<108, 97, 109, 98, 100, 97, 47, 104, 97, 110, 100, 108, 101, 114, 46, 106, 115>>  \* "lambda/handler.js"
B_index1 == <<60, 105, 62>>  \* "<i>"
B_index2 == <<60, 98, 62>>  \* "<b>"
B_handler == <<106, 115>>  \* "js"
B_logo == <<137, 80, 78, 71>>  \* the first bytes of a PNG file

Absent == [exists |-> FALSE, bytes |-> <<>>]
File(b) == [exists |-> TRUE, bytes |-> b]

\* the files of the deployed package that the model follows
FileNames == {F_index, F_logo, F_handler}

\* the states the environment can put a file in
FileStates(f) ==
    IF f = F_index THEN {Absent, File(B_index1), File(B_index2)}
    ELSE IF f = F_logo THEN {File(B_logo)}
    ELSE {File(B_handler)}

\* the records of data/certs.json the model draws from
CertCanada ==
    [country |-> <<67, 97, 110, 97, 100, 97>>,  \* "Canada"
     name |-> <<67, 67, 67, 83>>,  \* "CCCS"
     fullName |-> <<67, 97, 110, 97, 100, 105, 97, 110, 32, 67, 101, 110, 116, 114, 101>>,  \* "Canadian Centre"
     website |-> "https://example.org", emergencyContact |-> "+1-000", email |-> "cert@example.org",
     established |-> 2018,
     description |-> <<102, 101, 100, 101, 114, 97, 108, 32, 108, 101, 97, 100>>,  \* "federal lead"
     sector |-> <<71, 111, 118, 101, 114, 110, 109, 101, 110, 116>>,  \* "Government"
     verified |-> TRUE,
     lastUpdated |-> <<50, 48, 50, 52, 45, 48, 51, 45, 48, 49>>,  \* "2024-03-01"
     pgpKey |-> [available |-> TRUE, keyId |-> "0xA1B2C3D4"]]

CertJapan ==
    [country |-> <<74, 97, 112, 97, 110>>,  \* "Japan"
     name |-> <<74, 80, 67, 69, 82, 84>>,  \* "JPCERT"
     fullName |-> <<74, 97, 112, 97, 110, 32, 67, 69, 82, 84>>,  \* "Japan CERT"
     website |-> "https://example.org", emergencyContact |-> "+1-000", email |-> "cert@example.org",
     established |-> 1996,
     description |-> <<99, 111, 111, 114, 100, 105, 110, 97, 116, 105, 111, 110>>,  \* "coordination"
     sector |-> <<78, 97, 116, 105, 111, 110, 97, 108>>,  \* "National"
     verified |-> TRUE,
     lastUpdated |-> <<50, 48, 50, 53, 45, 48, 49, 45, 49, 53>>,  \* "2025-01-15"
     pgpKey |-> [available |-> FALSE]]

CertGermany ==
    [country |-> <<71, 101, 114, 109, 97, 110, 121>>,  \* "Germany"
     name |-> <<67, 69, 82, 84, 45, 66, 117, 110, 100>>,  \* "CERT-Bund"
     fullName |-> <<66, 117, 110, 100>>,  \* "Bund"
     website |-> "https://example.org", emergencyContact |-> "+1-000", email |-> "cert@example.org",
     established |-> 2001,
     description |-> <<103, 111, 118, 101, 114, 110, 109, 101, 110, 116, 32, 116, 101, 97, 109>>,  \* "government team"
     sector |-> <<71, 111, 118, 101, 114, 110, 109, 101, 110, 116>>,  \* "Government"
     verified |-> TRUE,
     lastUpdated |-> <<50, 48, 50, 51, 45, 49, 50, 45, 51, 49>>]  \* "2023-12-31"

CertAustria ==
    [country |-> <<97, 117, 115, 116, 114, 105, 97>>,  \* "austria"
     name |-> <<65, 67, 79, 110, 101, 116>>,  \* "ACOnet"
     fullName |-> <<67, 97, 110, 97, 100, 97, 32, 100, 101, 115, 107>>,  \* "Canada desk"
     website |-> "https://example.org", emergencyContact |-> "+1-000", email |-> "cert@example.org",
     established |-> 2003,
     description |-> <<114, 101, 115, 101, 97, 114, 99, 104, 32, 110, 101, 116>>,  \* "research net"
     sector |-> <<97, 99, 97, 100, 101, 109, 105, 99>>,  \* "academic"
     verified |-> TRUE,
     lastUpdated |-> <<50, 48, 50, 53, 45, 48, 49, 45, 49, 53>>,  \* "2025-01-15"
     pgpKey |-> [available |-> TRUE, keyId |-> "0xA1B2C3D4"]]

Pool == {CertCanada, CertJapan, CertGermany, CertAustria}

\* the record lists of length at most n over Pool
BoundedSeq(n) == UNION {[1..k -> Pool] : k \in 0..n}

\* the datasets the backing file of the running API holds
DataSets == {<<>>, <<CertCanada, CertJapan>>, <<CertJapan, CertAustria, CertGermany, CertCanada>>}

\* the states of data/certs.json: missing, not JSON, or an array of records
DataFiles ==
    {[kind |-> "missing", certs |-> <<>>], [kind |-> "unparsable", certs |-> <<>>]}
    \cup {[kind |-> "array", certs |-> d] : d \in DataSets}

Q_an == <<97, 110>>  \* "an"
Q_GOV == <<71, 79, 86>>  \* "GOV"
Q_zz == <<122, 122>>  \* "zz"
Q_government == <<103, 111, 118, 101, 114, 110, 109, 101, 110, 116>>  \* "government"
Q_ALL == <<65, 76, 76>>  \* "ALL"
Q_CANADA == <<67, 65, 78, 65, 68, 65>>  \* "CANADA"
Q_false == <<102, 97, 108, 115, 101>>  \* "false"
SEC_Government == <<71, 111, 118, 101, 114, 110, 109, 101, 110, 116>>  \* "Government"
C_Japan == <<74, 97, 112, 97, 110>>  \* "Japan"
RP_api == <<47, 97, 112, 105>>  \* "/api"
RP_api_certs == <<47, 97, 112, 105, 47, 99, 101, 114, 116, 115>>  \* "/api/certs"
RP_api_stats == <<47, 97, 112, 105, 47, 115, 116, 97, 116, 115>>  \* "/api/stats"
RP_api_countries == <<47, 97, 112, 105, 47, 99, 111, 117, 110, 116, 114, 105, 101, 115>>  \* "/api/countries"
RP_api_sectors == <<47, 97, 112, 105, 47, 115, 101, 99, 116, 111, 114, 115>>  \* "/api/sectors"
RP_api_health == <<47, 97, 112, 105, 47, 104, 101, 97, 108, 116, 104>>  \* "/api/health"
RP_api_unknown == <<47, 97, 112, 105, 47, 117, 110, 107, 110, 111, 119, 110>>  \* "/api/unknown"
RP_certs_api == <<47, 99, 101, 114, 116, 115, 47, 97, 112, 105>>  \* "/certs/api"

NoQuery == <<>>

\* the values of one query parameter: absent, or one of vs
Param(k, vs) == {NoQuery} \cup {prop(k, v) : v \in vs}

\* the filter objects parsed from a query string
FilterSpecs ==
    {spread(spread(spread(a, b), c), d) :
        a \in Param("search", {<<>>, Q_an, Q_GOV, Q_zz}),
        b \in Param("sector", {S_all, Q_government, Q_ALL}),
        c \in Param("country", {Q_CANADA, C_Japan}),
        d \in Param("pgp", {S_true, Q_false})}

Event(m, p, q) == [hasCtx |-> TRUE, method |-> m, hasPath |-> TRUE, rawPath |-> p, query |-> q]
EventNoPath(m) == [hasCtx |-> TRUE, method |-> m, hasPath |-> FALSE, rawPath |-> <<>>, query |-> NoQuery]
EventNoContext == [hasCtx |-> FALSE, method |-> "GET", hasPath |-> TRUE, rawPath |-> S_slash, query |-> NoQuery]

\* the events sent to the static Lambda
StaticEvents ==
    {Event("GET", p, NoQuery) : p \in RequestPaths}
    \cup {Event("OPTIONS", P_missing, NoQuery), Event("POST", S_slash, NoQuery),
          EventNoPath("OPTIONS"), EventNoContext}

\* the events sent to the API Lambda
ApiEvents ==
    {Event("GET", p, NoQuery) :
        p \in {RP_api, RP_api_certs, RP_api_stats, RP_api_countries, RP_api_sectors,
               RP_api_health, RP_api_unknown, RP_certs_api}}
    \cup {Event("GET", RP_api_certs, q) :
            q \in {prop("sector", SEC_Government),
                   spread(prop("search", Q_an), prop("pgp", S_true)),
                   spread(prop("sector", S_all), prop("country", Q_CANADA))}}
    \cup {Event("OPTIONS", RP_api_certs, NoQuery), Event("POST", RP_api_certs, NoQuery),
          EventNoPath("GET"), EventNoPath("OPTIONS"), EventNoContext}

\* the events sent to the health-check Lambda
HealthEvents ==
    {Event("GET", S_slash, NoQuery), Event("OPTIONS", S_slash, NoQuery),
     Event("POST", S_slash, NoQuery), EventNoPath("GET"), EventNoPath("OPTIONS"),
     EventNoContext}

NoEvent == [hasCtx |-> FALSE, method |-> "none", hasPath |-> FALSE, rawPath |-> <<>>, query |-> NoQuery]
NoResponse == [statusCode |-> 0, headers |-> <<>>, body |-> TextBody(<<>>)]
NoOutput == [op |-> "none"]

----------------------------------------------------------------------------
(* The processes *)

Init ==
    /\ fn \in {"static", "api", "health"}
    /\ now = StartTime
    /\ ticks = 0
    /\ fs = [f \in FileNames |->
                IF f = F_index THEN File(B_index1)
                ELSE IF f = F_logo THEN File(B_logo) ELSE File(B_handler)]
    /\ cache = <<>>
    /\ dataFile = [kind |-> "array", certs |-> <<CertCanada, CertJapan>>]
    /\ certData = [isNull |-> TRUE, certs |-> <<>>]
    /\ certDataTimestamp = 0
    /\ event = NoEvent
    /\ lookups = <<>>
    /\ response = NoResponse
    /\ input = <<>>
    /\ output = NoOutput
    /\ invocations = <<>>

\* the TTL of the cache of the running function
TtlOf(f) == IF f = "api" THEN API_CACHE_TTL ELSE CACHE_TTL

\* nothing is being reported: the last invocation's event, lookups and
\* response are forgotten when the environment moves
Forget == event' = NoEvent /\ lookups' = <<>> /\ response' = NoResponse

\* time passes between two invocations: the clock stops one millisecond
\* short of a TTL after the previous stop, then on the TTL, alternately
Tick ==
    /\ ticks < MaxTicks
    /\ now' = now + (IF ticks % 2 = 0 THEN TtlOf(fn) - 1 ELSE 1)
    /\ ticks' = ticks + 1
    /\ Forget
    /\ UNCHANGED <<fn, fs, cache, dataFile, certData, certDataTimestamp, input, output, invocations>>

\* the environment replaces or removes a file of the static site
FsChange ==
    /\ fn = "static"
    /\ \E f \in FileNames : \E st \in FileStates(f) :
          /\ st # fs[f]
          /\ fs' = [fs EXCEPT ![f] = st]
    /\ Forget
    /\ UNCHANGED <<fn, now, ticks, cache, dataFile, certData, certDataTimestamp, input, output, invocations>>

\* the environment replaces, corrupts or removes data/certs.json
DataChange ==
    /\ fn \in {"api", "health"}
    /\ \E df \in DataFiles : df # dataFile /\ dataFile' = df
    /\ Forget
    /\ UNCHANGED <<fn, now, ticks, fs, cache, certData, certDataTimestamp, input, output, invocations>>

\* one invocation of the static Lambda that starts from an empty cache
\* whenever the method is not GET
StaticRequestClearing(ev) ==
    /\ fn = "static"
    /\ LET returns(r) ==
               /\ cache' = IF ev.method = "GET" THEN r.cache ELSE <<>>
               /\ lookups' = r.lookups
               /\ response' = r.response
       IN  returns(staticHandler(cache, fs, now, ev))
    /\ event' = ev
    /\ UNCHANGED <<fn, now, ticks, fs, dataFile, certData, certDataTimestamp, input, output, invocations>>

\* one invocation of the static Lambda
StaticRequest(ev) ==
    /\ fn = "static"
    /\ LET returns(r) ==
               /\ cache' = r.cache
               /\ lookups' = r.lookups
               /\ response' = r.response
       IN  returns(staticHandler(cache, fs, now, ev))
    /\ event' = ev
    /\ UNCHANGED <<fn, now, ticks, fs, dataFile, certData, certDataTimestamp, input, output, invocations>>

\* one invocation of the API Lambda
ApiRequest(ev) ==
    /\ fn = "api"
    /\ LET r == apiHandler(certData, certDataTimestamp, dataFile, now, ev)
       IN  /\ certData' = r.certData
           /\ certDataTimestamp' = r.certDataTimestamp
           /\ lookups' = r.lookups
           /\ response' = r.response
    /\ event' = ev
    /\ UNCHANGED <<fn, now, ticks, fs, cache, dataFile, input, output, invocations>>

\* one invocation of the health-check Lambda
HealthRequest(ev) ==
    /\ fn = "health"
    /\ response' = healthHandler(dataFile, now, ev)
    /\ event' = ev
    /\ lookups' = <<>>
    /\ UNCHANGED <<fn, now, ticks, fs, cache, dataFile, certData, certDataTimestamp,
                   input, output, invocations>>

Next ==
    \/ Tick
    \/ FsChange
    \/ DataChange
    \/ \E ev \in StaticEvents : StaticRequest(ev)
    \/ \E ev \in ApiEvents : ApiRequest(ev)
    \/ \E ev \in HealthEvents : HealthRequest(ev)

Spec == Init /\ [][Next]_vars

----------------------------------------------------------------------------
(* The query engine called directly, on every record list up to MaxCerts *)

InitQuery ==
    /\ fn = "query"
    /\ now = StartTime
    /\ ticks = 0
    /\ fs = [f \in FileNames |-> Absent]
    /\ cache = <<>>
    /\ dataFile = [kind |-> "missing", certs |-> <<>>]
    /\ certData = [isNull |-> TRUE, certs |-> <<>>]
    /\ certDataTimestamp = 0
    /\ event = NoEvent
    /\ lookups = <<>>
    /\ response = NoResponse
    /\ input \in BoundedSeq(MaxCerts)
    /\ output = NoOutput
    /\ invocations = <<>>

\* one call per run: the call is made on the input as given
QueryFrame ==
    UNCHANGED <<fn, now, ticks, fs, cache, dataFile, certData, certDataTimestamp,
                event, lookups, response, input, invocations>>

CallFilterCerts(filters) ==
    /\ output = NoOutput
    /\ output' = [op |-> "filterCerts", filters |-> filters,
                  result |-> filterCerts(input, filters)]
    /\ QueryFrame

CallGetStats ==
    /\ output = NoOutput
    /\ output' = [op |-> "getStats", result |-> getStats(input)]
    /\ QueryFrame

CallCountries ==
    /\ output = NoOutput
    /\ output' = [op |-> "countries", result |-> countriesView(input)]
    /\ QueryFrame

CallSectors ==
    /\ output = NoOutput
    /\ output' = [op |-> "sectors", result |-> sectorsView(input)]
    /\ QueryFrame

NextQuery ==
    \/ \E filters \in FilterSpecs : CallFilterCerts(filters)
    \/ CallGetStats
    \/ CallCountries
    \/ CallSectors

SpecQuery == InitQuery /\ [][NextQuery]_vars

----------------------------------------------------------------------------
(* The static resolver on one file: the package holds a single file under  *)
(* dist, of some content class and with some content, and the static       *)
(* Lambda is asked for it.                                                 *)

\* the contents the file can have: empty, text, bytes that are not UTF-8,
\* and lengths that leave 0, 1 and 2 bytes over in base64
ResolveContents ==
    {<<>>, <<104, 105>>, <<123, 125, 10>>, <<137, 80, 78, 71>>, <<255>>, <<0, 16, 131, 16, 81>>}

InitResolve ==
    /\ fn = "resolve"
    /\ now = StartTime
    /\ ticks = 0
    /\ \E p \in ResolvePaths : \E b \in ResolveContents :
          fs = [f \in {fullPathTable[filePathTable[p]]} |-> File(b)]
    /\ cache = <<>>
    /\ dataFile = [kind |-> "missing", certs |-> <<>>]
    /\ certData = [isNull |-> TRUE, certs |-> <<>>]
    /\ certDataTimestamp = 0
    /\ event = NoEvent
    /\ lookups = <<>>
    /\ response = NoResponse
    /\ input = <<>>
    /\ output = NoOutput
    /\ invocations = <<>>

\* one GET for the file the package holds
ResolveRequest(p) ==
    /\ fn = "resolve"
    /\ fullPathTable[filePathTable[p]] \in DOMAIN fs
    /\ LET returns(r) ==
               /\ cache' = r.cache
               /\ lookups' = r.lookups
               /\ response' = r.response
       IN  returns(staticHandler(cache, fs, now, Event("GET", p, NoQuery)))
    /\ event' = Event("GET", p, NoQuery)
    /\ UNCHANGED <<fn, now, ticks, fs, dataFile, certData, certDataTimestamp, input, output, invocations>>

NextResolve == \E p \in ResolvePaths : ResolveRequest(p)

SpecResolve == InitResolve /\ [][NextResolve]_vars

----------------------------------------------------------------------------
(* Interleaved lookups: several invocations look the same key up, and the  *)
(* steps of getCachedFile and of loadCertData are interleaved.  Node runs  *)
(* each of these functions to its return before another invocation is      *)
(* entered, which is one of the interleavings; the others are what a host  *)
(* running invocations side by side on one cache would add.  The backing   *)
(* file stays as it is, and the key looked up is that of dist/index.html.  *)

MaxInvocations == 2

\* cached && now - cached.timestamp < CACHE_TTL (handler.js lines 43-45)
cacheHit(c, t, filePath) ==
    filePath \in DOMAIN c /\ t - c[filePath].timestamp < CACHE_TTL

\* certData && now - certDataTimestamp < CACHE_TTL (part_002 line 12)
certDataHit(cd, ts, t) ==
    ~cd.isNull /\ t - ts < API_CACHE_TTL

\* invocation i moves on
Becomes(i, inv) == invocations' = [invocations EXCEPT ![i] = inv]

\* nothing but the invocations and the caches moves
RaceFrame == UNCHANGED <<fn, now, ticks, fs, dataFile, event, lookups, response, input, output>>

InitRace ==
    /\ fn \in {"static", "api"}
    /\ now = StartTime
    /\ ticks = 0
    /\ \E b \in {B_index1, B_index2} : fs = [f \in {F_index} |-> File(b)]
    /\ IF fn = "static"
       THEN \* nothing cached, or an entry that has just expired
            cache \in {<<>>, prop(S_dist_index, [content |-> B_index1,
                                            timestamp |-> StartTime - CACHE_TTL])}
       ELSE cache = <<>>
    /\ \E l \in {<<CertCanada, CertJapan>>, <<CertGermany>>} :
          dataFile = [kind |-> "array", certs |-> l]
    /\ IF fn = "api"
       THEN \/ certData = [isNull |-> TRUE, certs |-> <<>>] /\ certDataTimestamp = 0
            \/ /\ certData = [isNull |-> FALSE, certs |-> <<CertCanada>>]
               /\ certDataTimestamp = StartTime - API_CACHE_TTL
       ELSE certData = [isNull |-> TRUE, certs |-> <<>>] /\ certDataTimestamp = 0
    /\ event = NoEvent
    /\ lookups = <<>>
    /\ response = NoResponse
    /\ input = <<>>
    /\ output = NoOutput
    \* no invocation has started: the position of each, its Date.now(), what
    \* it read, what it returned, and whether it wrote the cache
    /\ invocations = [i \in 1..MaxInvocations |->
                        [pc |-> "start", t |-> 0, content |-> Null, result |-> Null,
                         wrote |-> FALSE]]

\* a millisecond passes
RaceTick ==
    /\ ticks < MaxTicks
    /\ now' = now + 1
    /\ ticks' = ticks + 1
    /\ UNCHANGED <<fn, fs, cache, dataFile, certData, certDataTimestamp,
                   event, lookups, response, input, output, invocations>>

\* getCachedFile lines 42-46: the clock is read and the entry looked up
StaticBegin(i) ==
    /\ fn = "static"
    /\ invocations[i].pc = "start"
    /\ IF cacheHit(cache, now, S_dist_index)
       THEN Becomes(i, [invocations[i] EXCEPT !.pc = "returned", !.t = now,
                                              !.result = Some(cache[S_dist_index].content)])
       ELSE Becomes(i, [invocations[i] EXCEPT !.pc = "missed", !.t = now])
    /\ UNCHANGED <<cache, certData, certDataTimestamp>>
    /\ RaceFrame

\* getCachedFile lines 48-50 and 58-61: the file is read; null is returned
\* when the read throws
StaticRead(i) ==
    /\ fn = "static"
    /\ invocations[i].pc = "missed"
    /\ LET reads(rd) ==
               IF rd.ok
               THEN Becomes(i, [invocations[i] EXCEPT !.pc = "read", !.content = rd])
               ELSE Becomes(i, [invocations[i] EXCEPT !.pc = "returned", !.result = Null])
       IN  reads(readFileSync(fs, fullPathTable[S_dist_index]))
    /\ UNCHANGED <<cache, certData, certDataTimestamp>>
    /\ RaceFrame

\* getCachedFile lines 52-57: the entry is written and the content returned
StaticWrite(i) ==
    /\ fn = "static"
    /\ invocations[i].pc = "read"
    /\ cache' = cacheSet(cache, S_dist_index, invocations[i].content.bytes, invocations[i].t)
    /\ Becomes(i, [invocations[i] EXCEPT !.pc = "returned", !.wrote = TRUE,
                                           !.result = invocations[i].content])
    /\ UNCHANGED <<certData, certDataTimestamp>>
    /\ RaceFrame

\* loadCertData lines 10-14: the clock is read and the module state tested
DataBegin(i) ==
    /\ fn = "api"
    /\ invocations[i].pc = "start"
    /\ IF certDataHit(certData, certDataTimestamp, now)
       THEN Becomes(i, [invocations[i] EXCEPT !.pc = "returned", !.t = now,
                                              !.result = Some(certData.certs)])
       ELSE Becomes(i, [invocations[i] EXCEPT !.pc = "missed", !.t = now])
    /\ UNCHANGED <<cache, certData, certDataTimestamp>>
    /\ RaceFrame

\* loadCertData lines 17-19 and 24-27: the file is read and parsed; [] is
\* returned when either throws
DataRead(i) ==
    /\ fn = "api"
    /\ invocations[i].pc = "missed"
    /\ IF dataFile.kind = "array"
       THEN Becomes(i, [invocations[i] EXCEPT !.pc = "read", !.content = Some(dataFile.certs)])
       ELSE Becomes(i, [invocations[i] EXCEPT !.pc = "returned", !.result = Some(<<>>)])
    /\ UNCHANGED <<cache, certData, certDataTimestamp>>
    /\ RaceFrame

\* loadCertData line 19: certData = ...
DataAssign(i) ==
    /\ fn = "api"
    /\ invocations[i].pc = "read"
    /\ certData' = [isNull |-> FALSE, certs |-> invocations[i].content.bytes]
    /\ Becomes(i, [invocations[i] EXCEPT !.pc = "assigned"])
    /\ UNCHANGED <<cache, certDataTimestamp>>
    /\ RaceFrame

\* loadCertData line 20: certDataTimestamp = now
DataStamp(i) ==
    /\ fn = "api"
    /\ invocations[i].pc = "assigned"
    /\ certDataTimestamp' = invocations[i].t
    /\ Becomes(i, [invocations[i] EXCEPT !.pc = "stamped"])
    /\ UNCHANGED <<cache, certData>>
    /\ RaceFrame

\* loadCertData lines 22-23: return certData, the module variable
DataReturn(i) ==
    /\ fn = "api"
    /\ invocations[i].pc = "stamped"
    /\ Becomes(i, [invocations[i] EXCEPT !.pc = "returned", !.wrote = TRUE,
                                           !.result = Some(certData.certs)])
    /\ UNCHANGED <<cache, certData, certDataTimestamp>>
    /\ RaceFrame

NextRace ==
    \/ RaceTick
    \/ \E i \in 1..MaxInvocations :
          \/ StaticBegin(i)
          \/ StaticRead(i)
          \/ StaticWrite(i)
          \/ DataBegin(i)
          \/ DataRead(i)
          \/ DataAssign(i)
          \/ DataStamp(i)
          \/ DataReturn(i)

SpecRace == InitRace /\ [][NextRace]_vars

----------------------------------------------------------------------------
(* src/scripts/validate-json.js: the dataset validation script.  A JSON     *)
(* null is kept apart from an absent property: an object lists the names of *)
(* its properties that are null in a field "nulls", and DOMAIN holds the    *)
(* properties that are neither undefined nor null.  Every modelled country, *)
(* name, website, email and sector is a string.                             *)

\* obj.k === null
IsNull(obj, k) == "nulls" \in DOMAIN obj /\ k \in obj.nulls

\* the requiredFields array of validate-json.js (lines 9-22)
scriptRequiredFields ==
    {"country", "name", "fullName", "website", "emergencyContact", "email",
     "established", "description", "sector", "pgpKey", "verified", "lastUpdated"}

\* validSectors (line 24)
validSectors ==
    {<<71, 111, 118, 101, 114, 110, 109, 101, 110, 116>>, <<78, 97, 116, 105, 111, 110, 97, 108>>, <<65, 99, 97, 100, 101, 109, 105, 99>>, <<67, 111, 109, 109, 101, 114, 99, 105, 97, 108>>}

\* validateCertEntry(cert, index): the errors pushed, one per message
validateCertEntry(cert) ==
    {<<"Missing required field", field>> : field \in {f \in scriptRequiredFields : ~Has(cert, f)}}
    \cup (IF Truthy(cert, "website") /\ ~startsWith(cert.website, <<104, 116, 116, 112>>)
          THEN {<<"Website must be a valid URL starting with http/https">>} ELSE {})
    \cup (IF Truthy(cert, "email") /\ ~includes(cert.email, <<64>>)
          THEN {<<"Email must be a valid email address">>} ELSE {})
    \cup (IF Truthy(cert, "sector") /\ cert.sector \notin validSectors
          THEN {<<"Sector must be one of">>} ELSE {})
    \cup (IF ~(Has(cert, "verified") /\ cert.verified = TRUE)
          THEN {<<"Verified field must be true">>} ELSE {})
    \cup (IF Has(cert, "pgpKey")
          THEN (IF ~Has(cert.pgpKey, "available")
                THEN {<<"pgpKey.available must be a boolean">>} ELSE {})
               \cup
               (IF Has(cert.pgpKey, "available") /\ cert.pgpKey.available = TRUE
                THEN (IF ~Has(cert.pgpKey, "keyId")
                      THEN {<<"pgpKey.keyId must be a string when available is true">>}
                      ELSE {})
                ELSE (IF ~IsNull(cert.pgpKey, "keyId")
                      THEN {<<"pgpKey.keyId should be null when available is false">>}
                      ELSE {})
                     \cup
                     (IF ~IsNull(cert.pgpKey, "fingerprint")
                      THEN {<<"pgpKey.fingerprint should be null when available is false">>}
                      ELSE {}))
          ELSE {})
    \cup (IF Truthy(cert, "lastUpdated") /\ newDate(cert.lastUpdated).nan
          THEN {<<"lastUpdated must be a valid ISO date string">>} ELSE {})

\* validateAlphabeticalOrder comparing each country with the one before it
\* and demanding that it be greater
validateAlphabeticalOrderStrict(certs) ==
    \A i \in 2..Len(certs) : StrLess(certs[i - 1].country, certs[i].country)

\* validateAlphabeticalOrder(certs).valid: the countries are where
\* [...countries].sort() puts them
validateAlphabeticalOrder(certs) ==
    LET countries == [i \in 1..Len(certs) |-> certs[i].country]
        same(sortedCountries) ==
            \A i \in 1..Len(countries) : countries[i] = sortedCountries[i]
    IN  same(sort(countries))

\* validateUniqueEntries(certs): the indices reported as duplicates, those
\* whose key `${cert.country}-${cert.name}` was seen at an earlier index
validateUniqueEntries(certs) ==
    LET key(i) == certs[i].country \o <<45>> \o certs[i].name
    IN  {i \in 1..Len(certs) : \E j \in 1..(i - 1) : key(j) = key(i)}

\* the sum of the numbers ns[1..n]
RECURSIVE total(_, _)
total(ns, n) == IF n = 0 THEN 0 ELSE ns[n] + total(ns, n - 1)

\* the script body (lines 124-200) on the file df: totalErrors and the exit
\* code of the process
validateJson(df) ==
    IF df.kind # "array"
    THEN \* no file, invalid JSON: process.exit(1) at lines 129 and 140
         [totalErrors |-> 0, exit |-> 1]
    ELSE LET certs == df.certs
             summed(totalErrors) ==
                 [totalErrors |-> totalErrors, exit |-> IF totalErrors = 0 THEN 0 ELSE 1]
         IN  summed(total([i \in 1..Len(certs) |-> Cardinality(validateCertEntry(certs[i]))],
                          Len(certs))
                    + (IF validateAlphabeticalOrder(certs) THEN 0 ELSE 1)
                    + Cardinality(validateUniqueEntries(certs)))

\* an entry that passes validateCertEntry, and the entries made from it
Entry ==
    [CertCanada EXCEPT !.website = <<104, 116, 116, 112>> \o <<115, 58, 47, 47, 97, 46, 99, 97>>,  \* "https://a.ca"
                       !.email = <<99, 64, 97, 46, 99, 97>>,  \* "c@a.ca"
                       !.sector = <<71, 111, 118, 101, 114, 110, 109, 101, 110, 116>>]

\* the entries the validated file is made of: entries that pass (two of one
\* country, one of a later country with available false and null keyId and
\* fingerprint), and entries with each shape of pgpKey
Entries ==
    {Entry,
     [Entry EXCEPT !.name = <<67, 83, 73, 82, 84>>],  \* "CSIRT"
     [Entry EXCEPT !.country = CertJapan.country,
                   !.pgpKey = [available |-> FALSE, nulls |-> {"keyId", "fingerprint"}]],
     [Entry EXCEPT !.country = CertGermany.country, !.pgpKey = [available |-> FALSE]],
     [Entry EXCEPT !.country = CertGermany.country, !.pgpKey = [available |-> TRUE]],
     [Entry EXCEPT !.country = CertGermany.country,
                   !.pgpKey = [available |-> FALSE, keyId |-> "0xA1B2C3D4",
                               nulls |-> {"fingerprint"}]],
     [f \in DOMAIN Entry \ {"pgpKey"} |-> Entry[f]],
     [Entry EXCEPT !.country = CertAustria.country, !.sector = CertAustria.sector]}

InitValidate ==
    /\ fn = "validate"
    /\ now = StartTime
    /\ ticks = 0
    /\ fs = <<>>
    /\ cache = <<>>
    /\ \/ dataFile \in {[kind |-> "missing", certs |-> <<>>], [kind |-> "unparsable", certs |-> <<>>]}
       \/ \E n \in 0..MaxCerts : \E l \in [1..n -> Entries] :
             dataFile = [kind |-> "array", certs |-> l]
    /\ certData = [isNull |-> TRUE, certs |-> <<>>]
    /\ certDataTimestamp = 0
    /\ event = NoEvent
    /\ lookups = <<>>
    /\ response = NoResponse
    /\ input = <<>>
    /\ output = NoOutput
    /\ invocations = <<>>

\* node scripts/validate-json.js
RunValidateJson ==
    /\ fn = "validate"
    /\ output = NoOutput
    /\ output' = [op |-> "validate-json", result |-> validateJson(dataFile)]
    /\ UNCHANGED <<fn, now, ticks, fs, cache, dataFile, certData, certDataTimestamp,
                   event, lookups, response, input, invocations>>

\* the API's validateCertData on the same file, once parsed
CallValidateCertData ==
    /\ fn = "validate"
    /\ output = NoOutput
    /\ dataFile.kind = "array"
    /\ output' = [op |-> "validateCertData", result |-> validateCertData(dataFile.certs)]
    /\ UNCHANGED <<fn, now, ticks, fs, cache, dataFile, certData, certDataTimestamp,
                   event, lookups, response, input, invocations>>

NextValidate == RunValidateJson \/ CallValidateCertData

SpecValidate == InitValidate /\ [][NextValidate]_vars

----------------------------------------------------------------------------
(* src/scripts/security-check.js: the security check script.  The content   *)
(* of a scanned file is known by the patterns of SECURITY_PATTERNS that     *)
(* content.match finds in it: the set of <<family, index>> pairs.           *)

\* SECURITY_PATTERNS (lines 19-60): the number of patterns of each family
SECURITY_PATTERNS == [secrets |-> 9, dangerous |-> 8, xss |-> 4, insecure |-> 3]

\* the issues one family pushes for a file: one per pattern that matches,
\* in the order of the patterns
familyIssues(family, type, severity, matches) ==
    LET matched(i) == <<family, i>> \in matches
        issue(i) == [type |-> type, severity |-> severity, pattern |-> i]
    IN  SelectSeq([i \in 1..SECURITY_PATTERNS[family] |-> issue(i)],
                  LAMBDA x : matched(x.pattern))

\* checkFileContent(filePath, content) for a file of the given base name and
\* extension
checkFileContent(file) ==
    IF file.name \in {"package-lock.json", "yarn.lock"} THEN <<>>
    ELSE familyIssues("secrets", "secret", "high", file.matches)
         \o (IF file.ext \in {".js", ".html"}
             THEN familyIssues("dangerous", "dangerous", "medium", file.matches)
                  \o familyIssues("xss", "xss", "high", file.matches)
             ELSE <<>>)
         \o familyIssues("insecure", "insecure", "medium", file.matches)

\* generateSecurityReport(allIssues): the summary (lines 319-329)
RECURSIVE generateSecurityReport(_)
generateSecurityReport(allIssues) ==
    IF allIssues = <<>> THEN [total |-> 0, high |-> 0, medium |-> 0, low |-> 0]
    ELSE LET counted(acc, issue) ==
                 [total  |-> acc.total + 1,
                  high   |-> acc.high + (IF issue.severity = "high" THEN 1 ELSE 0),
                  medium |-> acc.medium + (IF issue.severity = "medium" THEN 1 ELSE 0),
                  low    |-> acc.low + (IF issue.severity \notin {"high", "medium"} THEN 1 ELSE 0)]
         IN  counted(generateSecurityReport(SubSeq(allIssues, 1, Len(allIssues) - 1)),
                     allIssues[Len(allIssues)])

\* an exit code that fails the check on warnings as well
exitCodeOnWarnings(summary) == IF summary.high > 0 \/ summary.medium > 0 THEN 1 ELSE 0

\* the exit code main() ends the process with (lines 391-405)
exitCode(summary) ==
    IF summary.high > 0 THEN 1
    ELSE IF summary.medium > 0 THEN 0
    ELSE IF summary.low > 0 THEN 0
    ELSE 0

\* main(): the issues of the scanned file, then those of the file
\* permissions, dependency and configuration checks
main(project) ==
    LET reported(allIssues) ==
            [issues |-> allIssues, exit |-> exitCode(generateSecurityReport(allIssues))]
    IN  reported(checkFileContent(project.file) \o project.others)

\* the scanned files: a script, a document and a lock file, each matching
\* some of five patterns
ScannedFiles ==
    {[name |-> n.name, ext |-> n.ext, matches |-> m] :
        n \in {[name |-> "main.js", ext |-> ".js"], [name |-> "README.md", ext |-> ".md"],
               [name |-> "package-lock.json", ext |-> ".json"]},
        m \in SUBSET {<<"secrets", 1>>, <<"secrets", 5>>, <<"dangerous", 1>>,
                      <<"xss", 2>>, <<"insecure", 1>>}}

\* what checkFilePermissions, checkDependencies and checkConfigurationFiles
\* can report (lines 147-161, 203-231, 299-301): any of these, in this order
OtherIssues ==
    LET kinds == <<[type |-> "permissions", severity |-> "medium", pattern |-> 0],
                   [type |-> "executable", severity |-> "low", pattern |-> 0],
                   [type |-> "dependency", severity |-> "high", pattern |-> 0],
                   [type |-> "dependency", severity |-> "low", pattern |-> 0],
                   [type |-> "config", severity |-> "high", pattern |-> 0]>>
    IN  {SelectSeq([i \in 1..5 |-> [k |-> kinds[i], on |-> i \in on]], LAMBDA x : x.on) :
            on \in SUBSET (1..5)}

InitSecurity ==
    /\ fn = "security"
    /\ now = StartTime
    /\ ticks = 0
    /\ fs = <<>>
    /\ cache = <<>>
    /\ dataFile = [kind |-> "missing", certs |-> <<>>]
    /\ certData = [isNull |-> TRUE, certs |-> <<>>]
    /\ certDataTimestamp = 0
    /\ event = NoEvent
    /\ lookups = <<>>
    /\ response = NoResponse
    /\ \E f \in ScannedFiles : \E o \in OtherIssues :
          input = [file |-> f, others |-> [i \in 1..Len(o) |-> o[i].k]]
    /\ output = NoOutput
    /\ invocations = <<>>

\* node scripts/security-check.js
RunSecurityCheck ==
    /\ fn = "security"
    /\ output = NoOutput
    /\ output' = [op |-> "security-check", result |-> main(input)]
    /\ UNCHANGED <<fn, now, ticks, fs, cache, dataFile, certData, certDataTimestamp,
                   event, lookups, response, input, invocations>>

SpecSecurity == InitSecurity /\ [][RunSecurityCheck]_vars

----------------------------------------------------------------------------
(* Properties: the caches and the static resolver *)

F_dist == <<47, 118, 97, 114, 47, 116, 97, 115, 107, 47, 100, 105, 115, 116, 47>>  \* "/var/task/dist/"

\* the file behind a key of the static cache, as the file system has it
BackingFile(k) ==
    IF k = S_dist_index THEN fs[F_index]
    ELSE IF k = K_logo THEN fs[F_logo]
    ELSE IF k = K_handler THEN fs[F_handler]
    ELSE Absent

\* the static cache holds an entry for k that has not expired
ValidlyCached(k) == k \in DOMAIN cache /\ now - cache[k].timestamp < CACHE_TTL

\* one lookup l of the static cache, made in the step from the unprimed to
\* the primed state, follows the TTL rule
StaticLookupFollowsTtl(l) ==
    LET k      == l.key
        stored == k \in DOMAIN cache
        fresh  == ValidlyCached(k)
        file   == BackingFile(k)
    IN  /\ stored => (~l.read <=> fresh)
        /\ fresh => /\ l.result = Some(cache[k].content)
                    /\ cache'[k] = cache[k]
        /\ ~fresh => l.read
        /\ (~fresh /\ file.exists) =>
              /\ l.result = Some(file.bytes)
              /\ k \in DOMAIN cache'
              /\ cache'[k] = [content |-> file.bytes, timestamp |-> now]

\* one lookup l of the dataset cache, made in the step from the unprimed to
\* the primed state, follows the TTL rule
DataLookupFollowsTtl(l) ==
    LET stored == ~certData.isNull
        fresh  == stored /\ now - certDataTimestamp < API_CACHE_TTL
    IN  /\ stored => (~l.read <=> fresh)
        /\ fresh => /\ l.value = certData.certs
                    /\ certData' = certData
                    /\ certDataTimestamp' = certDataTimestamp
        /\ ~fresh => l.read
        /\ (~fresh /\ dataFile.kind = "array") =>
              /\ l.value = dataFile.certs
              /\ certData' = [isNull |-> FALSE, certs |-> dataFile.certs]
              /\ certDataTimestamp' = now

\* C1: in both caches a lookup at time now of an entry stored at storedAt
\* returns the stored value without reading the backing file if and only if
\* now - storedAt < TTL (300000 ms for static files, 600000 ms for the
\* dataset); otherwise the backing file is read and, when the read succeeds,
\* the entry becomes the fresh value with storedAt = now.
C1_CacheFreshness ==
    [][event' # NoEvent =>
          /\ fn = "static" => \A i \in DOMAIN lookups' : StaticLookupFollowsTtl(lookups'[i])
          /\ fn = "api" => \A i \in DOMAIN lookups' : DataLookupFollowsTtl(lookups'[i])]_vars

\* an entry exactly TTL old was found, the file was read again and the read
\* succeeded
C1_Witness ==
    /\ fn = "static"
    /\ \E i \in DOMAIN lookups :
          /\ lookups[i].found.any
          /\ now - lookups[i].found.timestamp = CACHE_TTL
          /\ lookups[i].read
          /\ lookups[i].result.ok

\* C2: when the lookup of the normalized file of a GET fails, the response is
\* 200 with the root document's body, Content-Type text/html and
\* Cache-Control 'no-cache, no-store, must-revalidate' whenever the root
\* document is readable or validly cached, and 404 with the fixed minimal
\* HTML body only when the root document is unavailable too.
C2_SpaFallback ==
    (/\ fn = "static"
     /\ event.hasCtx
     /\ event.method = "GET"
     /\ lookups # <<>>
     /\ ~lookups[1].result.ok)
    => IF ValidlyCached(S_dist_index) \/ fs[F_index].exists
       THEN /\ response.statusCode = 200
            /\ response.body = TextBody(toString(cache[S_dist_index].content))
            /\ response.headers["Content-Type"] = S_text_html
            /\ response.headers["Cache-Control"] = "no-cache, no-store, must-revalidate"
       ELSE /\ response.statusCode = 404
            /\ response.body = TextBody(S_body404)

\* an unmapped path was answered with the root document, taken from the
\* cache while the file itself is gone
C2_Witness ==
    /\ fn = "static"
    /\ event = Event("GET", P_missing, NoQuery)
    /\ response.statusCode = 200
    /\ ~fs[F_index].exists

\* k names a file inside the asset root
InsideDist(k) == startsWith(k, S_dist \o S_slash)

\* C3: for every request path (also with '..' segments or without a leading
\* slash) the file the static resolver reads and the key it stores lie
\* inside the asset root 'dist'; '/' maps to dist/index.html.
C3_KeysInsideDist ==
    fn = "static" =>
        /\ \A k \in DOMAIN cache : InsideDist(k)
        /\ \A i \in DOMAIN lookups :
              /\ InsideDist(lookups[i].key)
              /\ lookups[i].read => startsWith(fullPathOf(lookups[i].key), F_dist)
        /\ (event = Event("GET", S_slash, NoQuery) => lookups[1].key = S_dist_index)

----------------------------------------------------------------------------
(* Properties: filtering and the views *)

\* needle occurs in hay, letter case ignored
CiContains(hay, needle) ==
    \E i \in 0..(Len(hay) - Len(needle)) :
        \A j \in 1..Len(needle) : LowerChar(hay[i + j]) = LowerChar(needle[j])

\* a and b are equal, letter case ignored
CiEquals(a, b) ==
    Len(a) = Len(b) /\ \A j \in 1..Len(a) : LowerChar(a[j]) = LowerChar(b[j])

\* the filter k is supplied: present and not empty
Supplied(filters, k) == k \in DOMAIN filters /\ filters[k] # <<>>

\* cert satisfies every supplied filter
Satisfies(cert, filters) ==
    /\ Supplied(filters, "search") =>
          \E field \in {cert.country, cert.name, cert.fullName, cert.sector, cert.description} :
              CiContains(field, filters["search"])
    /\ (Supplied(filters, "sector") /\ filters["sector"] # S_all) =>
          CiEquals(cert.sector, filters["sector"])
    /\ Supplied(filters, "country") => CiEquals(cert.country, filters["country"])
    /\ (Supplied(filters, "pgp") /\ filters["pgp"] = S_true) =>
          ("pgpKey" \in DOMAIN cert /\ cert.pgpKey.available = TRUE)

\* the records of certs that satisfy every supplied filter, in their order
Selected(certs, filters) ==
    LET keep(cert) == Satisfies(cert, filters) IN SelectSeq(certs, keep)

\* the sum of the number-valued function f over the finite set S
RECURSIVE SumOf(_, _)
SumOf(f, S) ==
    IF S = {} THEN 0
    ELSE LET x == CHOOSE y \in S : TRUE IN f[x] + SumOf(f, S \ {x})

\* C4: for every record list and every FilterSpec, filterCerts returns
\* exactly the records that satisfy every supplied filter, in their original
\* relative order (search: case-insensitive substring of country, name,
\* fullName, sector or description; sector: case-insensitive equality,
\* skipped when absent or the literal 'all'; country: case-insensitive
\* equality; pgp: pgpKey.available is true); an absent or empty filter
\* imposes no constraint.
C4_FilterCerts ==
    output.op = "filterCerts" => output.result = Selected(input, output.filters)

\* a sector filter in another letter case kept some records and dropped others
C4_Witness ==
    /\ output.op = "filterCerts"
    /\ Supplied(output.filters, "sector")
    /\ output.filters["sector"] = Q_government
    /\ output.result # <<>>
    /\ Len(output.result) < Len(input)

C6_CertsRoute ==
    (/\ fn = "api"
     /\ event.hasCtx
     /\ event.hasPath
     /\ event.method = "GET"
     /\ apiPathOf(event.rawPath) \in {AP_root, AP_certs}
     /\ lookups # <<>>
     /\ lookups[1].ok
     /\ certData.certs # <<>>)
    => /\ response.statusCode = 200
       /\ response.body.kind = "json"
       /\ response.body.value.success = TRUE
       /\ response.body.value.data = Selected(certData.certs, event.query)
       /\ response.body.value.total = Len(response.body.value.data)
       /\ (certData.certs = <<CertCanada, CertJapan>> /\ event.query = prop("sector", SEC_Government))
          => /\ response.body.value.data = <<CertCanada>>
             /\ response.body.value.total = 1

\* GET /api/certs?sector=Government on the Canada and Japan records
C6_Witness ==
    /\ fn = "api"
    /\ event = Event("GET", RP_api_certs, prop("sector", SEC_Government))
    /\ certData = [isNull |-> FALSE, certs |-> <<CertCanada, CertJapan>>]
    /\ response.statusCode = 200
    /\ response.body.value.total = 1

\* C7: the countries view lists each distinct country value exactly once, in
\* ascending order of the names (the order of Array.prototype.sort, which is
\* also the order the repository's data validator calls alphabetical); each
\* entry's count is the number of records with that country, and the counts
\* sum to the number of records.
C7_CountriesView ==
    output.op = "countries" =>
        LET r == output.result
        IN  /\ {r[i].name : i \in DOMAIN r} = {input[j].country : j \in DOMAIN input}
            /\ \A i \in 1..(Len(r) - 1) : StrLess(r[i].name, r[i + 1].name)
            /\ \A i \in DOMAIN r :
                  r[i].count = Cardinality({j \in DOMAIN input : input[j].country = r[i].name})
            /\ SumOf([i \in DOMAIN r |-> r[i].count], DOMAIN r) = Len(input)

\* several countries, one of them with more than one record, given out of
\* order
C7_Witness ==
    /\ output.op = "countries"
    /\ Len(output.result) >= 2
    /\ \E i \in DOMAIN output.result : output.result[i].count >= 2
    /\ StrLess(input[Len(input)].country, input[1].country)

\* C8: for every record list getStats returns totalCerts = the number of
\* records, totalCountries = the number of distinct country values,
\* sectorsCount = a histogram of the sectors whose values sum to totalCerts,
\* pgpEnabled = the number of records whose pgpKey.available is true,
\* lastUpdated = the latest lastUpdated of the records (as an ISO timestamp)
\* and verificationRate = '100%'.
C8_Stats ==
    output.op = "getStats" =>
        LET r == output.result
        IN  /\ r.totalCerts = Len(input)
            /\ r.totalCountries = Cardinality({input[j].country : j \in DOMAIN input})
            /\ DOMAIN r.sectorsCount = {input[j].sector : j \in DOMAIN input}
            /\ \A s \in DOMAIN r.sectorsCount :
                  r.sectorsCount[s] = Cardinality({j \in DOMAIN input : input[j].sector = s})
            /\ SumOf(r.sectorsCount, DOMAIN r.sectorsCount) = r.totalCerts
            /\ r.pgpEnabled =
                  Cardinality({j \in DOMAIN input :
                                  "pgpKey" \in DOMAIN input[j] /\ input[j].pgpKey.available = TRUE})
            /\ input # <<>> =>
                  \E j \in DOMAIN input :
                      /\ r.lastUpdated = input[j].lastUpdated \o S_T000
                      /\ \A k \in DOMAIN input :
                            ~StrLess(input[j].lastUpdated, input[k].lastUpdated)
            /\ r.verificationRate = "100%"

\* records of two sectors, some with a key and some without, the latest one
\* not the last
C8_Witness ==
    /\ output.op = "getStats"
    /\ Len(input) = 3
    /\ Cardinality(DOMAIN output.result.sectorsCount) = 2
    /\ output.result.pgpEnabled = 1
    /\ StrLess(input[3].lastUpdated, input[1].lastUpdated)

\* C9: the sectors view partitions the records by sector: there is one group
\* for each sector, every record appears as a {name, country} summary in the
\* group of its sector and in no other, each group's count is the length of
\* its certs list, and the counts sum to the number of records.
C9_SectorsView ==
    output.op = "sectors" =>
        LET r == output.result
            summaries(sectorName) ==
                LET inSector(cert) == cert.sector = sectorName
                    sel == SelectSeq(input, inSector)
                IN  [k \in 1..Len(sel) |-> [name |-> sel[k].name, country |-> sel[k].country]]
        IN  /\ \A i, j \in DOMAIN r : r[i].name = r[j].name => i = j
            /\ {r[i].name : i \in DOMAIN r} = {input[j].sector : j \in DOMAIN input}
            /\ \A i \in DOMAIN r : r[i].certs = summaries(r[i].name)
            /\ \A i \in DOMAIN r : r[i].count = Len(r[i].certs)
            /\ SumOf([i \in DOMAIN r |-> r[i].count], DOMAIN r) = Len(input)

\* two groups, one of them with two records that are not adjacent
C9_Witness ==
    /\ output.op = "sectors"
    /\ Len(output.result) = 2
    /\ Len(input) = 3
    /\ input[1].sector = input[3].sector
    /\ input[1].sector # input[2].sector
    /\ input[1] # input[3]

\* C10: in every handler a request with method OPTIONS on any path, also a
\* request with no path, returns status 200 with an empty body and only CORS
\* and security headers: no Content-Type and no Cache-Control.
C10_OptionsAnyPath ==
    (event.hasCtx /\ event.method = "OPTIONS")
    => /\ response.statusCode = 200
       /\ response.body = TextBody(<<>>)
       /\ "Content-Type" \notin DOMAIN response.headers
       /\ "Cache-Control" \notin DOMAIN response.headers

----------------------------------------------------------------------------
(* Properties: the router's error outcomes *)

\* C11: in every handler a request whose method is neither GET nor OPTIONS
\* returns status 405 with a JSON body that has both an error and a message
\* field.
C11_MethodNotAllowed ==
    (event.hasCtx /\ event.method \notin {"GET", "OPTIONS", "none"})
    => /\ response.statusCode = 405
       /\ response.body.kind = "json"
       /\ {"error", "message"} \subseteq DOMAIN response.body.value

\* the request is a GET for a path under the API prefix that names none of
\* the routes
UnknownApiPath ==
    /\ fn = "api"
    /\ event.hasCtx
    /\ event.hasPath
    /\ event.method = "GET"
    /\ startsWith(event.rawPath, S_api)
    /\ apiPathOf(event.rawPath) \notin {AP_root, AP_certs, AP_stats, AP_countries, AP_sectors, AP_health}

\* C12 as stated: a GET for a path under the API prefix that is not one of
\* /, /certs, /stats, /countries, /sectors, /health returns status 404 with
\* a JSON body {error, message}, whatever the state of the dataset.
C12_UnknownPathAlways404 ==
    UnknownApiPath
    => /\ response.statusCode = 404
       /\ response.body.kind = "json"
       /\ DOMAIN response.body.value = {"error", "message"}

\* C12: a GET for a path under the API prefix that is not one of the routes
\* returns status 404 with a JSON body {error, message} when the dataset is
\* available (the request's lookup is a cache hit or a successful read of a
\* list that is not empty); when the dataset is unavailable or empty the
\* same request is answered 500 with {error, message}.
C12_UnknownPath404 ==
    UnknownApiPath
    => /\ response.body.kind = "json"
       /\ DOMAIN response.body.value = {"error", "message"}
       /\ IF lookups[1].ok /\ lookups[1].value # <<>>
          THEN /\ response.statusCode = 404
               /\ response.body.value.error = "Not Found"
          ELSE /\ response.statusCode = 500
               /\ response.body.value.error = "Data Unavailable"

\* GET /api/unknown was answered 404 on a loaded dataset
C12_Witness ==
    /\ UnknownApiPath
    /\ event.rawPath = RP_api_unknown
    /\ lookups[1].value # <<>>
    /\ response.statusCode = 404

\* C13: GET /health returns a liveness payload with the fields success,
\* status, timestamp, version and dataStatus, where dataStatus reports the
\* number of loaded records and the most recent lastUpdated among them; the
\* /health route of the API handler and the health-check handler both serve
\* it.
C13_HealthPayload ==
    (/\ event.hasCtx
     /\ event.method = "GET"
     /\ \/ /\ fn = "api"
           /\ event.hasPath
           /\ apiPathOf(event.rawPath) = AP_health
           /\ response.statusCode = 200
        \/ /\ fn = "health"
           /\ response.statusCode \in {200, 503})
    => /\ response.body.kind = "json"
       /\ {"success", "status", "timestamp", "version", "dataStatus"}
             \subseteq DOMAIN response.body.value
       /\ response.body.value.dataStatus.certsLoaded = Len(certData.certs)
       /\ \E j \in DOMAIN certData.certs :
             /\ response.body.value.dataStatus.lastUpdate = newDate(certData.certs[j].lastUpdated)
             /\ \A k \in DOMAIN certData.certs :
                   newDate(certData.certs[k].lastUpdated).days
                      <= newDate(certData.certs[j].lastUpdated).days

\* the part of C13 that the /health route of the API handler satisfies
C13_ApiRouteOnly ==
    fn = "api" => C13_HealthPayload

----------------------------------------------------------------------------
(* Properties: response headers *)

\* C14: every response of every handler, on every path and with every
\* status, carries the security headers X-Content-Type-Options,
\* X-Frame-Options, Referrer-Policy and Content-Security-Policy and CORS
\* headers whose Access-Control-Allow-Origin is the single allowed origin;
\* merging them never replaces a handler-specific header such as
\* Content-Type.
C14_SecurityAndCorsHeaders ==
    event # NoEvent
    => /\ {"X-Content-Type-Options", "X-Frame-Options", "Referrer-Policy",
           "Content-Security-Policy"} \subseteq DOMAIN response.headers
       /\ "Access-Control-Allow-Origin" \in DOMAIN response.headers
       /\ response.headers["Access-Control-Allow-Origin"] = "https://cert.danieloo.com"
       /\ response.body.kind = "json" => response.headers["Content-Type"] = S_application_json

\* the part of C14 that holds of the static handler's answers to events
\* that carry a requestContext
C14_StaticOnly ==
    (fn = "static" /\ event.hasCtx) => C14_SecurityAndCorsHeaders

\* C15: every response, whatever its status, includes a Cache-Control
\* header: chosen by content class for static responses, 'no-cache' for
\* /health and 'public, max-age=300' for the other API routes.
C15_CacheControlAlways ==
    event # NoEvent
    => /\ "Cache-Control" \in DOMAIN response.headers
       /\ fn = "static" =>
             response.headers["Cache-Control"] \in
                {"no-cache, no-store, must-revalidate", "public, max-age=3600",
                 "public, max-age=31536000, immutable"}
       /\ (fn = "api" /\ event.hasCtx /\ event.hasPath) =>
             response.headers["Cache-Control"] =
                (IF apiPathOf(event.rawPath) = AP_health THEN "no-cache"
                 ELSE "public, max-age=300")

\* the part of C15 that holds: the responses with status 200 to a GET carry
\* the Cache-Control of their class
C15_OnSuccessfulGet ==
    (/\ event.hasCtx
     /\ event.method = "GET"
     /\ response.statusCode = 200
     /\ fn \in {"static", "api"})
    => C15_CacheControlAlways

----------------------------------------------------------------------------
(* Properties: failures *)

\* C16: when the dataset backing file is missing or unparsable, a GET on the
\* API that has to read it returns status 500 with a generic error body; the
\* failure is not remembered (the cached dataset and its timestamp stay as
\* they were), so every later GET that finds no fresh dataset reads the file
\* again, and once the file holds the records again the GET of a route
\* succeeds with status 200.
C16_RetryAfterFailure ==
    [][(/\ fn = "api"
        /\ event' # NoEvent
        /\ event'.hasCtx
        /\ event'.hasPath
        /\ event'.method = "GET"
        /\ (certData.isNull \/ now - certDataTimestamp >= API_CACHE_TTL))
       => /\ lookups' # <<>>
          /\ lookups'[1].read
          /\ dataFile.kind \in {"missing", "unparsable"} =>
                /\ response'.statusCode = 500
                /\ response'.body = JsonBody([error |-> "Data Unavailable",
                                              message |-> "CERT data could not be loaded"])
                /\ certData' = certData
                /\ certDataTimestamp' = certDataTimestamp
          /\ (/\ dataFile.kind = "array"
              /\ dataFile.certs # <<>>
              /\ apiPathOf(event'.rawPath) \in
                    {AP_root, AP_certs, AP_stats, AP_countries, AP_sectors, AP_health})
             => response'.statusCode = 200]_vars

\* a GET found the file unreadable, was answered 500, and nothing was
\* remembered of it
C16_Witness ==
    /\ fn = "api"
    /\ event.hasCtx
    /\ event.method = "GET"
    /\ lookups # <<>>
    /\ lookups[1].read
    /\ ~lookups[1].ok
    /\ dataFile.kind \in {"missing", "unparsable"}
    /\ response.statusCode = 500
    /\ certData.isNull

\* the handler throws while handling the event: requestContext.http of an
\* event without requestContext, or rawPath.replace of an event without
\* rawPath in the API handler
HandlingThrows ==
    /\ event # NoEvent
    /\ \/ ~event.hasCtx
       \/ fn = "api" /\ ~event.hasPath

\* C17: for every event, a malformed one included, each handler returns an
\* envelope with a numeric statusCode, a headers map and a string body; an
\* exception raised while handling is converted to status 500 with a
\* generic JSON body (one that says nothing of the exception).
C17_WellFormedEnvelope ==
    event # NoEvent
    => /\ response.statusCode \in 100..599
       /\ \A k \in DOMAIN response.headers : k \in STRING
       /\ response.body.kind \in {"text", "json"}
       /\ HandlingThrows =>
             /\ response.statusCode = 500
             /\ response.body.kind = "json"
             /\ {"error", "message"} \subseteq DOMAIN response.body.value
             /\ response.body.value.error = "Internal Server Error"
             /\ response.body.value.message = "An unexpected error occurred"

\* the part of C17 that holds of all three handlers: a well-formed envelope
\* for every event, and status 500 with a JSON body when handling throws
C17_EnvelopeOnly ==
    event # NoEvent
    => /\ response.statusCode \in 100..599
       /\ \A k \in DOMAIN response.headers : k \in STRING
       /\ response.body.kind \in {"text", "json"}
       /\ HandlingThrows => (response.statusCode = 500 /\ response.body.kind = "json")

----------------------------------------------------------------------------
(* Properties: content type, body encoding and Cache-Control of a resolved  *)
(* file                                                                     *)

T_css == <<116, 101, 120, 116, 47, 99, 115, 115>>  \* "text/css"
T_javascript == <<97, 112, 112, 108, 105, 99, 97, 116, 105, 111, 110, 47, 106, 97, 118, 97, 115, 99, 114, 105, 112, 116>>  \* "application/javascript"
T_png == <<105, 109, 97, 103, 101, 47, 112, 110, 103>>  \* "image/png"
T_svg == <<105, 109, 97, 103, 101, 47, 115, 118, 103, 43, 120, 109, 108>>  \* "image/svg+xml"
T_woff2 == <<102, 111, 110, 116, 47, 119, 111, 102, 102, 50>>  \* "font/woff2"

\* the content type each resolved path is to get: that of its extension in
\* lower case, the generic type when the extension is unknown or absent
ExpectedType(p) ==
    CASE p = ResolvePath.css -> T_css
      [] p = ResolvePath.js -> T_javascript
      [] p = ResolvePath.json -> S_application_json
      [] p = ResolvePath.html -> S_text_html
      [] p = ResolvePath.png_upper -> T_png
      [] p = ResolvePath.svg -> T_svg
      [] p = ResolvePath.nested -> T_woff2
      [] OTHER -> S_octet_stream

\* needle occurs in hay as written
Contains(hay, needle) ==
    \E i \in 0..(Len(hay) - Len(needle)) :
        \A j \in 1..Len(needle) : hay[i + j] = needle[j]

\* the content type is textual
TextualType(ct) ==
    \/ (Len(ct) >= 5 /\ SubSeq(ct, 1, 5) = S_text_slash)
    \/ Contains(ct, S_javascript)
    \/ Contains(ct, S_json)

\* the value of a base64 digit
Base64Value(c) ==
    IF c >= 65 /\ c <= 90 THEN c - 65
    ELSE IF c >= 97 /\ c <= 122 THEN c - 71
    ELSE IF c >= 48 /\ c <= 57 THEN c + 4
    ELSE IF c = 43 THEN 62
    ELSE IF c = 47 THEN 63
    ELSE 0

\* the bytes that the base64 text s stands for
RECURSIVE Base64Decode(_)
Base64Decode(s) ==
    IF Len(s) < 4 THEN <<>>
    ELSE LET n == (Base64Value(s[1]) * 262144) + (Base64Value(s[2]) * 4096)
                  + (Base64Value(s[3]) * 64) + Base64Value(s[4])
             three == <<n \div 65536, (n \div 256) % 256, n % 256>>
             kept == IF s[3] = 61 THEN 1 ELSE IF s[4] = 61 THEN 2 ELSE 3
         IN  SubSeq(three, 1, kept) \o Base64Decode(SubSeq(s, 5, Len(s)))

\* the file the package holds was resolved
Resolved ==
    /\ fn = "resolve"
    /\ event # NoEvent
    /\ response.statusCode = 200

\* the bytes of the file the package holds
ResolvedBytes == fs[fullPathTable[filePathTable[event.rawPath]]].bytes

\* C18: for every successfully resolved static file the content type is
\* that of the lower-cased extension (application/octet-stream when the
\* extension is unknown); the body is the file's text with the base64 flag
\* false iff the content type starts with 'text/' or contains 'javascript'
\* or 'json', and otherwise the base64 encoding of the file's bytes with
\* the flag true.
C18_BodyEncoding ==
    Resolved =>
        LET ct == response.headers["Content-Type"]
            text == response.body.text
        IN  /\ ct = ExpectedType(event.rawPath)
            /\ response.body.kind = "text"
            /\ response.isBase64Encoded = ~TextualType(ct)
            /\ TextualType(ct) =>
                  /\ Len(text) = Len(ResolvedBytes)
                  /\ \A i \in DOMAIN text :
                        text[i] = IF ResolvedBytes[i] < 128 THEN ResolvedBytes[i] ELSE 65533
            /\ ~TextualType(ct) =>
                  /\ Len(text) % 4 = 0
                  /\ \A i \in DOMAIN text :
                        text[i] = 61 \/ Base64Char(Base64Value(text[i])) = text[i]
                  /\ Base64Decode(text) = ResolvedBytes

\* an image with an upper-case extension was recognised and sent as base64
C18_Witness ==
    /\ Resolved
    /\ event.rawPath = ResolvePath.png_upper
    /\ response.isBase64Encoded
    /\ response.headers["Content-Type"] = T_png
    /\ Len(ResolvedBytes) = 4

\* C19: for every successfully resolved static file Cache-Control is
\* 'no-cache, no-store, must-revalidate' iff the content type is text/html,
\* 'public, max-age=3600' iff it is application/json, and
\* 'public, max-age=31536000, immutable' for every other content type, the
\* generic type of unknown extensions included.
C19_CacheControlByClass ==
    Resolved =>
        LET ct == ExpectedType(event.rawPath)
            cc == response.headers["Cache-Control"]
        IN  /\ (cc = "no-cache, no-store, must-revalidate") <=> (ct = S_text_html)
            /\ (cc = "public, max-age=3600") <=> (ct = S_application_json)
            /\ (cc = "public, max-age=31536000, immutable")
                  <=> (ct \notin {S_text_html, S_application_json})

\* a file of unknown extension was sent as immutable
C19_Witness ==
    /\ Resolved
    /\ event.rawPath = ResolvePath.txt
    /\ response.headers["Content-Type"] = S_octet_stream
    /\ response.headers["Cache-Control"] = "public, max-age=31536000, immutable"

----------------------------------------------------------------------------
(* Properties: interleaved lookups of one key                               *)

\* every invocation has returned
Settled == \A i \in DOMAIN invocations : invocations[i].pc = "returned"

\* what the backing file of the looked-up key holds
BackingContent == IF fn = "static" THEN fs[F_index].bytes ELSE dataFile.certs

\* every invocation that has returned returned the backing file's content,
\* the static cache never holds more than the one entry of the key, and
\* once all have returned the entry holds the backing file's content
RaceOutcome ==
    /\ \A i \in DOMAIN invocations :
          invocations[i].pc = "returned" => invocations[i].result = Some(BackingContent)
    /\ DOMAIN cache \subseteq {S_dist_index}
    /\ (Settled /\ fn = "static") =>
          (S_dist_index \in DOMAIN cache /\ cache[S_dist_index].content = BackingContent)
    /\ (Settled /\ fn = "api") =>
          (~certData.isNull /\ certData.certs = BackingContent)

\* a write replaces whatever the key held by the writer's content and the
\* time the writer started at
LastWriteWins ==
    \A i \in DOMAIN invocations :
        /\ (fn = "static" /\ invocations[i].pc = "read" /\ invocations'[i].pc = "returned") =>
              cache' = prop(S_dist_index, [content |-> invocations[i].content.bytes,
                                      timestamp |-> invocations[i].t])
        /\ (fn = "api" /\ invocations[i].pc = "read" /\ invocations'[i].pc = "assigned") =>
              certData'.certs = invocations[i].content.bytes
        /\ (fn = "api" /\ invocations[i].pc = "assigned" /\ invocations'[i].pc = "stamped") =>
              certDataTimestamp' = invocations[i].t

\* C20: when several invocations miss on the same key and their steps
\* interleave, each may read the backing file and write the key; whatever
\* the interleaving, the cache holds a single entry for the key, each write
\* replacing the one before (last write wins), and, the backing file staying
\* as it is, every invocation returns the backing file's content and the
\* entry left when all have returned holds that content.
C20_InterleavedMisses == [](invocations # <<>> => RaceOutcome) /\ [][LastWriteWins]_vars

\* two invocations both missed, both read the file and both wrote the key,
\* and the one that started first wrote last: the entry carries its time
C20_Witness ==
    /\ fn = "static"
    /\ invocations # <<>>
    /\ Settled
    /\ \A i \in DOMAIN invocations : invocations[i].wrote
    /\ invocations[1].t < invocations[2].t
    /\ cache[S_dist_index].timestamp = invocations[1].t
    /\ cache[S_dist_index].content = BackingContent

----------------------------------------------------------------------------
(* Properties: the life of the static cache's entries                       *)

\* the lookup l, made in the step to the primed state, read the file of its
\* key successfully
ReadOk(l) == l.read /\ l.result.ok

\* in one step no key leaves the static cache; a key that enters it was
\* missing and its file was read in this step, and an entry that changes is
\* overwritten with what was read in this step, at this step's time
KeysOnlyGrow ==
    /\ DOMAIN cache \subseteq DOMAIN cache'
    /\ \A k \in DOMAIN cache' :
          \/ (k \in DOMAIN cache /\ cache'[k] = cache[k])
          \/ \E j \in DOMAIN lookups' :
                /\ lookups'[j].key = k
                /\ ReadOk(lookups'[j])
                /\ lookups'[j].found.any = (k \in DOMAIN cache)
                /\ cache'[k] = [content |-> lookups'[j].result.bytes, timestamp |-> now]

\* C21: the static cache starts empty and its key set only grows: over any
\* sequence of requests an entry is inserted on a miss and overwritten on
\* refresh, and no request removes a key, not even an expired one whose file
\* has become unreadable.
C21_KeySetOnlyGrows == (cache = <<>>) /\ [][KeysOnlyGrow]_vars

\* a request found an expired entry, could not read its file, and the entry
\* is still there
C21_Witness ==
    /\ fn = "static"
    /\ \E i \in DOMAIN lookups :
          /\ lookups[i].found.any
          /\ lookups[i].read
          /\ ~lookups[i].result.ok
          /\ lookups[i].key \in DOMAIN cache
          /\ now - cache[lookups[i].key].timestamp >= CACHE_TTL

\* the entry of key k is the same before and after the step
EntryUntouched(k) ==
    /\ (k \in DOMAIN cache') = (k \in DOMAIN cache)
    /\ k \in DOMAIN cache => cache'[k] = cache[k]

\* the step is a GET of the static Lambda that fell back to the root document
FellBack ==
    /\ fn = "static"
    /\ Len(lookups') = 2
    /\ ~lookups'[1].result.ok

\* what one step does to the static cache's entries
OnlySuccessfulReadsStored ==
    /\ \A k \in DOMAIN cache' :
          ~EntryUntouched(k) =>
              \E j \in DOMAIN lookups' : lookups'[j].key = k /\ ReadOk(lookups'[j])
    /\ \A j \in DOMAIN lookups' :
          LET l == lookups'[j]
          IN  /\ (l.read /\ ~l.result.ok) =>
                    \* nothing is stored for the key, and what is left of it cannot
                    \* be served: the next request for it reads again
                    /\ EntryUntouched(l.key)
                    /\ ~(l.key \in DOMAIN cache' /\ now - cache'[l.key].timestamp < CACHE_TTL)
              /\ l.read = ~(l.key \in DOMAIN cache /\ l.found.any
                              /\ now - l.found.timestamp < CACHE_TTL)
    /\ FellBack =>
          /\ lookups'[2].key = S_dist_index
          /\ EntryUntouched(lookups'[1].key)
          /\ \A k \in DOMAIN cache' : k # S_dist_index => EntryUntouched(k)

\* C25: the static cache holds an entry for a key only if the key's file was
\* read successfully: a failed read stores nothing and leaves an entry of the
\* key as it is, so a request for a path whose read failed reads the disk
\* again, and the SPA fallback stores the root document under the root
\* document's key only, never under the key of the requested path.
C25_OnlyReadFilesCached == [][fn = "static" => OnlySuccessfulReadsStored]_vars

\* a request for a missing file fell back: the root document was read and
\* stored under its own key, and the requested key has no entry
C25_Witness ==
    /\ fn = "static"
    /\ event = Event("GET", P_missing, NoQuery)
    /\ Len(lookups) = 2
    /\ ~lookups[1].result.ok
    /\ ReadOk(lookups[2])
    /\ lookups[1].key \notin DOMAIN cache
    /\ S_dist_index \in DOMAIN cache
    /\ cache[S_dist_index].timestamp = now

----------------------------------------------------------------------------
(* Properties: the API handler's routes, data check and validation          *)

\* the API Lambda has just answered a GET that carried a path
ApiGet ==
    /\ fn = "api"
    /\ event # NoEvent
    /\ event.hasCtx
    /\ event.hasPath
    /\ event.method = "GET"

\* the routes of the API
ApiRoutes == {AP_root, AP_certs, AP_stats, AP_countries, AP_sectors, AP_health}

\* the request path is the '/api' prefix followed by a route ('/api' alone
\* being the root route)
PrefixedRoute(rawPath) ==
    /\ startsWith(rawPath, S_api)
    /\ LET rest == SubSeq(rawPath, Len(S_api) + 1, Len(rawPath))
       IN  rest \in ApiRoutes \cup {<<>>}

\* C24: the API handler serves a GET as one of the routes /, /certs, /stats,
\* /countries, /sectors, /health only when the request path is the '/api'
\* prefix followed by that route; a path with '/api' elsewhere than at its
\* start (such as '/certs/api') is not served as a route and gets 404.
C24_ApiPrefixOnly ==
    (ApiGet /\ lookups[1].ok /\ lookups[1].value # <<>>) =>
        /\ response.statusCode = 200 => PrefixedRoute(event.rawPath)
        /\ ~startsWith(event.rawPath, S_api) => response.statusCode = 404

\* the step to the primed state is a GET with a path answered by the API
\* Lambda
ApiGetStep ==
    /\ fn = "api"
    /\ event' # NoEvent
    /\ event'.hasCtx
    /\ event'.hasPath
    /\ event'.method = "GET"

\* the envelope of the data check
DataUnavailable(r) ==
    /\ r.statusCode = 500
    /\ r.body.kind = "json"
    /\ r.body.value = [error |-> "Data Unavailable", message |-> "CERT data could not be loaded"]

\* C26: when the dataset held has expired and reading or parsing the backing
\* file fails, loadCertData returns an empty list, so the request is answered
\* with 500 and not with the dataset held, and that dataset and its timestamp
\* are left as they were.
C26_ExpiredAndUnreadable ==
    [][(/\ ApiGetStep
        /\ ~certData.isNull
        /\ now - certDataTimestamp >= API_CACHE_TTL
        /\ dataFile.kind # "array")
       => /\ lookups'[1].read
          /\ lookups'[1].value = <<>>
          /\ DataUnavailable(response')
          /\ certData' = certData
          /\ certDataTimestamp' = certDataTimestamp]_vars

\* a request found an expired dataset with records, could not reload it, and
\* got 500 while the dataset is still held
C26_Witness ==
    /\ ApiGet
    /\ lookups[1].found.any
    /\ now - lookups[1].found.timestamp >= API_CACHE_TTL
    /\ lookups[1].read
    /\ ~lookups[1].ok
    /\ certData.certs # <<>>
    /\ response.statusCode = 500

\* C27: the data check comes before route matching: every GET, whatever its
\* path (/health and unknown paths included), is answered 500 'Data
\* Unavailable' when the loaded dataset is absent or an empty array; an empty
\* array parsed from the backing file is cached and still answered with 500
\* on every request.
C27_DataCheckFirst ==
    ApiGet =>
        /\ lookups[1].value = <<>> => DataUnavailable(response)
        /\ (lookups[1].read /\ lookups[1].ok /\ lookups[1].value = <<>>) =>
              (certData = [isNull |-> FALSE, certs |-> <<>>] /\ certDataTimestamp = now)
        /\ (~lookups[1].read /\ lookups[1].value = <<>>) =>
              (certData = [isNull |-> FALSE, certs |-> <<>>] /\ DataUnavailable(response))

\* /health was asked for while an empty array, parsed earlier, is cached:
\* the file was not read and the answer is 500
C27_Witness ==
    /\ ApiGet
    /\ event.rawPath = RP_api_health
    /\ ~lookups[1].read
    /\ certData = [isNull |-> FALSE, certs |-> <<>>]
    /\ certDataTimestamp < now
    /\ response.statusCode = 500

\* C28: a request with method OPTIONS or any method other than GET is
\* answered without reading a backing file and leaves the static cache, the
\* cached dataset and its timestamp exactly as they were.
C28_NonGetLeavesCaches ==
    [][(/\ fn \in {"static", "api"}
        /\ event' # NoEvent
        /\ event'.hasCtx
        /\ event'.method # "GET")
       => /\ lookups' = <<>>
          /\ cache' = cache
          /\ certData' = certData
          /\ certDataTimestamp' = certDataTimestamp]_vars

\* a POST or OPTIONS was answered by a Lambda whose cache holds something
C28_Witness ==
    /\ event # NoEvent
    /\ event.hasCtx
    /\ event.method \in {"OPTIONS", "POST"}
    /\ lookups = <<>>
    /\ \/ (fn = "static" /\ cache # <<>>)
       \/ (fn = "api" /\ ~certData.isNull)

\* C29: validation of the loaded dataset is advisory: when validateCertData
\* rejects it, the status and body of the response are what they are for a
\* dataset that passes (the route's view of the dataset, or 404 for an unknown
\* path), and the dataset stays in the cache.
C29_ValidationAdvisory ==
    (ApiGet /\ lookups[1].value # <<>> /\ ~validateCertData(lookups[1].value)) =>
        LET apiPath == apiPathOf(event.rawPath)
        IN  /\ response.body.kind = "json"
            /\ IF apiPath \in ApiRoutes
               THEN /\ response.statusCode = 200
                    /\ response.body.value
                          = routeResponse(lookups[1].value, apiPath, event.query, now)
               ELSE /\ response.statusCode = 404
                    /\ response.body.value.error = "Not Found"
            /\ certData = [isNull |-> FALSE, certs |-> lookups[1].value]

\* a dataset with a record that has no pgpKey was served
C29_Witness ==
    /\ ApiGet
    /\ event.rawPath = RP_api_certs
    /\ \E i \in DOMAIN certData.certs : "pgpKey" \notin DOMAIN certData.certs[i]
    /\ ~validateCertData(certData.certs)
    /\ response.statusCode = 200
    /\ response.body.value.total = Len(certData.certs)

----------------------------------------------------------------------------
(* Properties: validation of the dataset                                    *)

\* the validated file holds an array and a validator has run on it
Validated(op) ==
    /\ fn = "validate"
    /\ output # NoOutput
    /\ output.op = op
    /\ dataFile.kind = "array"

\* the rule for pgpKey: optional, and keyId present exactly if available is
\* true
PgpKeyRule(cert) ==
    IF "pgpKey" \notin DOMAIN cert THEN TRUE
    ELSE /\ "available" \in DOMAIN cert.pgpKey
         /\ cert.pgpKey.available = ("keyId" \in DOMAIN cert.pgpKey)

\* the record is one that passes once given a pgpKey that passes
SoundButForPgpKey(cert) ==
    validateCertEntry(spread(cert, prop("pgpKey", Entry.pgpKey))) = {}

\* C22: record validation accepts a record's pgpKey only when keyId is
\* present exactly if available is true: {available: false} without a keyId
\* is accepted, {available: true} without a string keyId is rejected, a keyId
\* alongside available = false is rejected, and a record with no pgpKey at
\* all is accepted.  Stated for a file of one record that is sound but for
\* its pgpKey, of the script and of the API's validateCertData.
C22_PgpKeyRule ==
    /\ (Validated("validate-json") /\ Len(dataFile.certs) = 1
          /\ SoundButForPgpKey(dataFile.certs[1]))
       => ((output.result.exit = 0) = PgpKeyRule(dataFile.certs[1]))
    /\ (Validated("validateCertData") /\ Len(dataFile.certs) = 1
          /\ SoundButForPgpKey(dataFile.certs[1]))
       => (output.result = PgpKeyRule(dataFile.certs[1]))

\* some entry of the file violates the schema
SchemaViolated == \E i \in DOMAIN dataFile.certs : validateCertEntry(dataFile.certs[i]) # {}

\* two entries of the file have the same country and name
DuplicateEntries ==
    \E i, j \in DOMAIN dataFile.certs :
        /\ i < j
        /\ dataFile.certs[i].country = dataFile.certs[j].country
        /\ dataFile.certs[i].name = dataFile.certs[j].name

\* each entry's country is after (strictly: greater than, otherwise: not
\* less than) that of the entry before it, by UTF-16 code units
Ascending(strictly) ==
    \A i \in 2..Len(dataFile.certs) :
        IF strictly
        THEN StrLess(dataFile.certs[i - 1].country, dataFile.certs[i].country)
        ELSE ~StrLess(dataFile.certs[i].country, dataFile.certs[i - 1].country)

----------------------------------------------------------------------------
(* Properties: the security check's exit code                               *)

\* the security check has run
Scanned == fn = "security" /\ output # NoOutput

\* the scan reported an issue of one of the types
Reported(types) ==
    \E i \in DOMAIN output.result.issues : output.result.issues[i].type \in types

\* the scanned project has something of high severity: a secret pattern in a
\* file other than a lock file, an XSS pattern in a script or page, a
\* vulnerable dependency or a configuration file with sensitive words
HighSeverityInput ==
    \/ /\ input.file.name \notin {"package-lock.json", "yarn.lock"}
       /\ \/ \E m \in input.file.matches : m[1] = "secrets"
          \/ (input.file.ext \in {".js", ".html"} /\ \E m \in input.file.matches : m[1] = "xss")
    \/ \E i \in DOMAIN input.others : input.others[i].severity = "high"

====
